---------------------------- MODULE Spec2Model ----------------------------
(***************************************************************************)
(* A model of CommonNetworkMember (sdk/core/src/CommonNetworkMember.ts):   *)
(* the revocation-list operations buildRevocationListStatus and            *)
(* revokeCredential, run as concurrent asynchronous calls against the      *)
(* revocation service and the signing oracle, and the operations that read *)
(* claims of received tokens (signCredentials, signCredential,             *)
(* verifyCredentialShareResponseToken, verifyCredentialOfferResponseToken),*)
(* the build operations of the share flow, of the offer flow and of        *)
(* DID-auth, the presentation exchange (generatePresentationChallenge,     *)
(* createPresentationFromChallenge, verifyPresentation), the retried       *)
(* request of storeEncryptedSeed, signIn with confirmSignIn, signUp with   *)
(* confirmSignUp and confirmSignUpWithExistsEntity, the login calls        *)
(* (fromLoginAndPassword) that share an options object, and                *)
(* AffinityWallet.deleteCredential.                                        *)
(***************************************************************************)
EXTENDS Integers, Sequences, FiniteSets, TLC

(***************************************************************************)
(* Bounds of the model.                                                    *)
(***************************************************************************)
\* number of asynchronous calls that may be in flight or completed
MaxCalls == 2
\* capacity of one revocation list at the revocation service
ListSize == 2

Calls == 1..MaxCalls

\* credential ids the callers use
CredIds == {"cred:1", "cred:2"}
\* credential ids the revocation service may hold already when the run starts:
\* one the callers use (issued in an earlier session) and others
PreIds == <<"cred:2", "cred:p1", "cred:p2">>
\* caller-owned unsigned credential objects
Objs == {"o1", "o2"}
\* values `new Date().toISOString()` may read; the service stamps its list
\* credentials with date 0
Dates == {0, 1}

VcContext == "https://www.w3.org/2018/credentials/v1"
AppContext == "https://schema.affinity-project.org/PhoneCredentialPersonV1"
RevocationContext == "https://w3id.org/vc-revocation-list-2020/v1"

\* the @context sequences of the unsigned credentials handed to the SDK
InputContexts ==
  { <<VcContext, AppContext>>, <<VcContext, RevocationContext>> }

HolderOf(c) == "did:holder"

(***************************************************************************)
(* Values.                                                                 *)
(***************************************************************************)
NoStatus == [credentialId |-> "none", subjectDid |-> "none", listCredentialId |-> 0, listIndex |-> -1]

NoCredential == [id |-> 0, revoked |-> {}, issuanceDate |-> -1, proof |-> <<>>]
NoReply == [credentialStatus |-> NoStatus, isPublisRequired |-> FALSE, revocationListCredential |-> NoCredential]
NoResult == [id |-> "none", holder |-> "none", context |-> <<>>, credentialStatus |-> NoStatus]

IdleCall ==
  [ pc |-> "idle", op |-> "none", obj |-> "none", credentialId |-> "none",
    subjectDid |-> "none", inContext |-> <<>>, reply |-> NoReply,
    signed |-> NoCredential, sent |-> NoCredential, result |-> NoResult,
    outcome |-> "pending", error |-> "none", after |-> {}, log |-> <<>> ]

VARIABLES
  objs,        \* the callers' unsigned credential objects (mutable JS objects)
  entries,     \* revocation service: the status entries it holds
  nLists,      \* revocation service: number of list credentials allocated
  published,   \* revocation service: last list credential published, per list
  calls,       \* the SDK calls: position, locals, outcome, what they did
  verifiedTokens, \* received tokens whose signature has been verified so far
  lastCall,    \* the last token operation: its steps in order and its result
  lastArgs,    \* the last token operation and the arguments the properties read
  built,       \* what the SDK built last and handed to the other party
  storeCall,   \* the storeEncryptedSeed call: position, requests sent, outcome
  userStatus,  \* Cognito: the status of the user with the username signing in
  signInCall,  \* the signIn and confirmSignIn calls: position, steps, outcome
  regCall,     \* the signUp and confirmSignUp calls: position, steps, outcome
  logins,      \* the login calls in flight and the options objects given to them
  wallet       \* AffinityWallet: the vault and the deleteCredential call

revVars == <<objs, entries, nLists, published, calls>>
tokVars == <<verifiedTokens, lastCall, lastArgs, built>>
accVars == <<storeCall, userStatus, signInCall>>
regVars == <<regCall>>
sesVars == <<logins, wallet>>
vars == <<objs, entries, nLists, published, calls, verifiedTokens, lastCall, lastArgs, built,
          storeCall, userStatus, signInCall, regCall, logins, wallet>>

(***************************************************************************)
(* The revocation service (a remote collaborator reached through           *)
(* services/RevocationService).                                            *)
(***************************************************************************)
EntriesOf(c) == {e \in entries : e.credentialId = c}

ListCount(l) == Cardinality({e \in entries : e.list = l})

\* the unsigned revocation list credential of list l: the bitmap of revoked indices
ListCredentialOf(es, l) ==
  [ id |-> l,
    revoked |-> {e.index : e \in {x \in es : x.list = l /\ x.status = "revoked"}},
    issuanceDate |-> 0,
    proof |-> <<>> ]

StatusOf(e, subjectDid) ==
  [ credentialId |-> e.credentialId, subjectDid |-> subjectDid,
    listCredentialId |-> e.list, listIndex |-> e.index ]

NewEntry(c, l, i) == [credentialId |-> c, list |-> l, index |-> i, status |-> "valid"]

\* reuse of the entry a credentialId already has: nothing is allocated
ReuseEntry(req) ==
  LET e == CHOOSE x \in EntriesOf(req.credentialId) :
             \A y \in EntriesOf(req.credentialId) :
               x.list < y.list \/ (x.list = y.list /\ x.index <= y.index)
  IN [ entries |-> entries, nLists |-> nLists,
       reply |-> [ credentialStatus |-> StatusOf(e, req.subjectDid),
                   isPublisRequired |-> FALSE,
                   revocationListCredential |-> ListCredentialOf(entries, e.list) ] ]

\* allocation of an index: in a new list when there is none or the current one is full
AllocateEntry(req) ==
  IF nLists = 0 \/ ListCount(nLists) >= ListSize
  THEN LET es == entries \cup {NewEntry(req.credentialId, nLists + 1, 0)}
       IN [ entries |-> es, nLists |-> nLists + 1,
            reply |-> [ credentialStatus |-> StatusOf(NewEntry(req.credentialId, nLists + 1, 0), req.subjectDid),
                        isPublisRequired |-> TRUE,
                        revocationListCredential |-> ListCredentialOf(es, nLists + 1) ] ]
  ELSE LET e == NewEntry(req.credentialId, nLists, ListCount(nLists))
           es == entries \cup {e}
       IN [ entries |-> es, nLists |-> nLists,
            reply |-> [ credentialStatus |-> StatusOf(e, req.subjectDid),
                        isPublisRequired |-> FALSE,
                        revocationListCredential |-> ListCredentialOf(es, nLists) ] ]

\* the service's answer to build-revocation-list-status, handled atomically
ServiceBuildStatus(req) ==
  IF EntriesOf(req.credentialId) # {} THEN ReuseEntry(req) ELSE AllocateEntry(req)

\* the service accepts a revoke request for a known credential that is still valid
RevokeAccepted(c) ==
  /\ EntriesOf(c) # {}
  /\ \A e \in EntriesOf(c) : e.status = "valid"

Flip(c) ==
  {IF e.credentialId = c THEN [e EXCEPT !.status = "revoked"] ELSE e : e \in entries}

ListOfCredential(c) == (CHOOSE e \in EntriesOf(c) : TRUE).list

(***************************************************************************)
(* The signing oracle (Affinity.signCredential of @affinidi/common): the   *)
(* proof covers the fields of the credential as they are when it is signed.*)
(***************************************************************************)
SignedContent(c) == <<c.id, c.revoked, c.issuanceDate>>

SignCredentialOracle(c) == [c EXCEPT !.proof = SignedContent(c)]

ProofVerifies(c) == c.proof = SignedContent(c)

(***************************************************************************)
(* CommonNetworkMember: the pieces of buildRevocationListStatus and        *)
(* revokeCredential.                                                       *)
(***************************************************************************)
\* const credentialId = unsignedCredential.id; subjectDid = unsignedCredential.holder?.id
BuildRequest(cred) == [credentialId |-> cred.id, subjectDid |-> cred.holder]

\* a slip: the sources of Object.assign swapped, the input's own field winning
AssignStatusInputWins(cred, credentialStatus) == cred

\* Object.assign({}, unsignedCredential, { credentialStatus }): a shallow copy
AssignStatus(cred, credentialStatus) ==
  [cred EXCEPT !.credentialStatus = credentialStatus]

\* revokableUnsignedCredential['@context'].push(<revocation context>)
PushRevocationContext(context) == Append(context, RevocationContext)

\* a slip: the flag read under a name the build result does not have
PublishRequiredUndefined(reply) == FALSE

\* a slip: the list credential published on every build
PublishRequiredAlways(reply) == TRUE

\* if (isPublisRequired) { sign; publish }
PublishRequired(reply) == reply.isPublisRequired

\* signedListCredential.issuanceDate = new Date().toISOString()
StampIssuanceDate(signedListCredential, date) ==
  [signedListCredential EXCEPT !.issuanceDate = date]

\* a slip: the rejection caught and dropped, the call resolving all the same
RejectedSwallowed(call, step, code) ==
  [call EXCEPT !.pc = "done", !.outcome = "ok", !.log = Append(@, step)]

\* a rejected await throws out of the async function: the call ends with the error
Rejected(call, step, code) ==
  [call EXCEPT !.pc = "done", !.outcome = "error", !.error = code,
               !.log = Append(@, step)]

\* a slip: the service's answer not examined, the list credential signed anyway
AfterRevokeReplyUnchecked(call, accepted, reply, code) ==
  [call EXCEPT !.pc = "sign", !.reply = reply,
               !.log = Append(@, IF accepted THEN "flip" ELSE "revokeRejected")]

\* a slip: the service's error replaced by a generic one
AfterRevokeReplyRewrapped(call, accepted, reply, code) ==
  IF accepted
  THEN [call EXCEPT !.pc = "sign", !.reply = reply, !.log = Append(@, "flip")]
  ELSE Rejected(call, "revokeRejected", "error")

\* where revokeCredential goes when the service has answered its revoke request
AfterRevokeReply(call, accepted, reply, code) ==
  IF accepted
  THEN [call EXCEPT !.pc = "sign", !.reply = reply, !.log = Append(@, "flip")]
  ELSE Rejected(call, "revokeRejected", code)

\* where buildRevocationListStatus goes once the status is attached
AfterAttach(call, revokable) ==
  IF PublishRequired(call.reply)
  THEN [call EXCEPT !.pc = "sign"]
  ELSE [call EXCEPT !.pc = "done", !.outcome = "ok", !.result = revokable,
                    !.log = Append(@, "return")]

\* a slip: the publish sent but not awaited, the call returning at once
AfterSignNotAwaited(call, signed, date) ==
  [call EXCEPT !.pc = "publish", !.signed = signed,
               !.sent = StampIssuanceDate(signed, date),
               !.outcome = "ok", !.log = Append(Append(@, "sign"), "return")]

\* the continuation after `await signCredential(...)`: stamp, then publish
AfterSign(call, signed, date) ==
  [call EXCEPT !.pc = "publish", !.signed = signed,
               !.sent = StampIssuanceDate(signed, date),
               !.log = Append(@, "sign")]

\* the return after `await publishRevocationListCredential(...)`
AfterPublish(call, revokable) ==
  [call EXCEPT !.pc = "done", !.outcome = "ok", !.result = revokable,
               !.log = Append(@, "return")]

(***************************************************************************)
(* Tokens received from other parties.  A token is shown decoded; signedBy *)
(* is the key that really produced its signature.                          *)
(***************************************************************************)
HolderKey == "did:elem:holder#primary"
MalloryKey == "did:elem:mallory#primary"
VerifierKey == "did:elem:verifier#primary"
KeyIds == {HolderKey, MalloryKey}

\* parse(requesterDid).did and DidDocumentService.keyIdToDid: the DID of a key id
DidOf(keyId) ==
  CASE keyId = HolderKey -> "did:elem:holder"
    [] keyId = MalloryKey -> "did:elem:mallory"
    [] keyId = VerifierKey -> "did:elem:verifier"
    [] OTHER -> keyId

PhoneType == "PhoneCredentialPersonV1"
EmailType == "EmailCredentialPersonV1"

Token(typ, iss, signedBy, jti, selected, supplied) ==
  [ typ |-> typ, iss |-> iss, signedBy |-> signedBy, jti |-> jti,
    selectedCredentials |-> selected, suppliedCredentials |-> supplied ]

\* no token given (an optional argument left undefined)
NoToken == Token("none", "none", "none", "none", <<>>, <<>>)
\* a string that is not a JWT
MalformedToken == Token("malformed", "none", "none", "none", <<>>, <<>>)

\* the keys that may have signed a token that names iss as its issuer
SignersFor(iss) == {iss, MalloryKey}

\* the selections of offered credentials an offer response may carry
SelectedChoices ==
  { <<[type |-> PhoneType]>>, <<[type |-> PhoneType], [type |-> EmailType]>> }

\* offer responses that name the holder as issuer, signed by the holder or forged
OfferResponseTokens ==
  { Token("credentialOfferResponse", HolderKey, by, "nonce:1", sel, <<>>) :
      by \in SignersFor(HolderKey), sel \in SelectedChoices }

OfferRequestTokens ==
  { Token("credentialOfferRequest", VerifierKey, VerifierKey, n, <<>>, <<>>) :
      n \in {"nonce:1", "nonce:2"} }

SuppliedCredential(holder) == [type |-> <<"Credential", PhoneType>>, holder |-> holder]

ShareResponseTokens ==
  { Token("credentialResponse", HolderKey, by, "nonce:1", <<>>, sup) :
      by \in SignersFor(HolderKey),
      sup \in { <<>>, <<SuppliedCredential("did:elem:holder")>>,
                <<SuppliedCredential("did:elem:mallory")>> } }

ShareRequestTokens ==
  { Token("credentialRequest", VerifierKey, VerifierKey, n, <<>>, <<>>) :
      n \in {"nonce:1", "nonce:2"} }

\* ParametersValidator type 'jwt'
IsJwt(t) == t.typ \notin {"none", "malformed"}

\* JwtService.fromJWT: decoding reads the claims and verifies nothing
Decodable(t) == IsJwt(t)

\* the signature of a token verifies against the key of its iss
SignatureVerifies(t) == IsJwt(t) /\ t.signedBy = t.iss

(***************************************************************************)
(* The record of one token operation.                                      *)
(***************************************************************************)
NoSigned == <<>>

TokenResult(threw, error, isValid, did, nonce, credentials, errors) ==
  [ threw |-> threw, error |-> error, isValid |-> isValid, did |-> did,
    nonce |-> nonce, credentials |-> credentials, errors |-> errors ]

Thrown(code) == TokenResult(TRUE, code, FALSE, "none", "none", <<>>, <<>>)

\* one step of an operation that concerns a token: a claim of it put to use
\* ("use"), or its signature verified ("verify", with the verdict)
UseOf(t, claim) ==
  [e |-> "use", token |-> t, claim |-> claim, ok |-> TRUE, verified |-> t \in verifiedTokens]
VerifyOf(t) ==
  [e |-> "verify", token |-> t, claim |-> "signature", ok |-> SignatureVerifies(t), verified |-> t \in verifiedTokens]

NoTokenCall == [op |-> "none", token |-> NoToken, steps |-> <<>>, result |-> Thrown("none")]

TokenCall(op, t, steps, result) == [op |-> op, token |-> t, steps |-> steps, result |-> result]

\* one step of an operation and whether it passed
Phase(e, ok) == [e |-> e, ok |-> ok]

\* the error of an API request that failed
ServiceError == "service request failed"

\* no operation called yet
NoArgs == [op |-> "none"]

\* no presentation: a value that is not a verifiable presentation
NoPresentation ==
  [ holder |-> "none", signedBy |-> "none", verifiableCredential |-> <<>>,
    challenge |-> NoToken, domain |-> "none" ]

\* nothing built yet: no share request, share response, challenge or presentation
NothingBuilt ==
  [ request |-> NoToken, response |-> NoToken, challenge |-> NoToken,
    presentation |-> NoPresentation ]

(***************************************************************************)
(* signCredential and signCredentials                                      *)
(***************************************************************************)
\* expirationDate / expiresAt: absent, or a date already past
ExpirationDates == {"none", "past"}

\* the unsigned credentials handed to signCredentials
UnsignedParams ==
  { [type |-> <<"Credential", ty>>, expirationDate |-> x] :
      ty \in {PhoneType, EmailType}, x \in ExpirationDates }

ParamLists == {<<u>> : u \in UnsignedParams} \cup
              {<<u, v>> : u \in UnsignedParams, v \in UnsignedParams}

\* if (typeof expiresAt !== 'undefined' && new Date() > new Date(expiresAt)) throw
ExpiryRejected(expiresAt) == expiresAt = "past"

\* let { requesterDid } = input; if (credentialOfferResponseToken) requesterDid = payload.iss
RequesterDid(input) ==
  IF input.credentialOfferResponseToken # NoToken
  THEN input.credentialOfferResponseToken.iss
  ELSE input.requesterDid

\* buildVCV1Unsigned(...) signed by Affinity.signCredential
SignedCredentialFor(type, requesterDid, expiresAt) ==
  [ type |-> type, holder |-> DidOf(requesterDid), expirationDate |-> expiresAt,
    issuer |-> "did:elem:issuer" ]

\* the steps of signCredential that concern the token it is given
SignCredentialSteps(input, expiresAt) ==
  IF ExpiryRejected(expiresAt) \/ input.credentialOfferResponseToken = NoToken
  THEN <<>>
  ELSE <<UseOf(input.credentialOfferResponseToken, "iss")>>

\* signCredential(credentialSubject, claimMetadata, input, expiresAt)
SignCredentialResult(type, input, expiresAt) ==
  IF ExpiryRejected(expiresAt)
  THEN Thrown("Expiry date should be greater than current date")
  ELSE TokenResult(FALSE, "none", TRUE, "none", "none",
                   <<SignedCredentialFor(type, RequesterDid(input), expiresAt)>>, <<>>)

\* const credentialTypesThatCanBeSigned = selectedCredentials.map(({ type }) => type)
CredentialTypesThatCanBeSigned(t) ==
  {t.selectedCredentials[i].type : i \in DOMAIN t.selectedCredentials}

\* unsignedCredential.type.some((type) => credentialTypesThatCanBeSigned.includes(type))
IsCredentialOffered(unsignedCredential, types) ==
  \E i \in DOMAIN unsignedCredential.type : unsignedCredential.type[i] \in types

\* the loop of signCredentials over credentialParams[i..], given what was
\* signed and done so far: the first rejected signCredential ends the call
RECURSIVE SignLoop(_, _, _, _, _)
SignLoop(t, params, i, signedSoFar, steps) ==
  IF i > Len(params)
  THEN IF Len(signedSoFar) = 0
       THEN [steps |-> steps, result |-> Thrown("COR-22")]
       ELSE [steps |-> steps,
             result |-> TokenResult(FALSE, "none", TRUE, "none", "none", signedSoFar, <<>>)]
  ELSE IF ~IsCredentialOffered(params[i], CredentialTypesThatCanBeSigned(t))
  THEN SignLoop(t, params, i + 1, signedSoFar, steps)
  ELSE LET input == [credentialOfferResponseToken |-> t, requesterDid |-> "none"]
           one == SignCredentialResult(params[i].type, input, params[i].expirationDate)
           more == steps \o SignCredentialSteps(input, params[i].expirationDate)
       IN IF one.threw
          THEN [steps |-> more, result |-> one]
          ELSE SignLoop(t, params, i + 1, signedSoFar \o one.credentials, more)

\* signCredentials(credentialOfferResponseToken, credentialParams)
SignCredentialsOutcome(t, params) ==
  IF ~IsJwt(t)
  THEN [steps |-> <<>>, result |-> Thrown("COR-1")]
  ELSE SignLoop(t, params, 1, NoSigned, <<UseOf(t, "selectedCredentials")>>)

SignCredentials(t, params) ==
  /\ lastCall' = TokenCall("signCredentials", t,
                           SignCredentialsOutcome(t, params).steps,
                           SignCredentialsOutcome(t, params).result)
  /\ lastArgs' = [op |-> "signCredentials", credentialParams |-> params]
  /\ UNCHANGED <<sesVars, regVars, accVars, revVars, verifiedTokens, built>>

SignCredential(type, input, expiresAt) ==
  /\ lastCall' = TokenCall("signCredential", input.credentialOfferResponseToken,
                           SignCredentialSteps(input, expiresAt),
                           SignCredentialResult(type, input, expiresAt))
  /\ lastArgs' = [op |-> "signCredential"]
  /\ UNCHANGED <<sesVars, regVars, accVars, revVars, verifiedTokens, built>>

(***************************************************************************)
(* verifyCredentialOfferResponseToken: the Issuer API verifies the response*)
(***************************************************************************)
\* the Issuer API's VerifyCredentialOfferResponse
OfferVerdict(t, request) ==
  LET errors == (IF SignatureVerifies(t) THEN <<>> ELSE <<"signature">>) \o
                (IF request # NoToken /\ request.jti # t.jti THEN <<"nonce">> ELSE <<>>)
  IN [ isValid |-> errors = <<>>, issuer |-> t.iss, jti |-> t.jti,
       selectedCredentials |-> t.selectedCredentials, errors |-> errors ]

VerifyCredentialOfferResponseToken(t, request) ==
  /\ IF ~IsJwt(t)
     THEN /\ lastCall' = TokenCall("verifyCredentialOfferResponseToken", t, <<>>, Thrown("COR-1"))
          /\ UNCHANGED verifiedTokens
     ELSE LET res == OfferVerdict(t, request)
          IN /\ lastCall' = TokenCall("verifyCredentialOfferResponseToken", t, <<VerifyOf(t)>>,
                              TokenResult(FALSE, "none", res.isValid, DidOf(res.issuer),
                                          res.jti, res.selectedCredentials, res.errors))
             /\ verifiedTokens' = IF SignatureVerifies(t)
                                  THEN verifiedTokens \cup {t} ELSE verifiedTokens
  /\ lastArgs' = [op |-> "verifyCredentialOfferResponseToken", token |-> t, request |-> request]
  /\ UNCHANGED <<sesVars, regVars, accVars, revVars, built>>

\* the Issuer API does not answer the VerifyCredentialOfferResponse request:
\* the awaited request throws out of the operation
VerifyCredentialOfferResponseFails(t, request) ==
  /\ IsJwt(t) /\ request # MalformedToken
  /\ lastCall' = TokenCall("verifyCredentialOfferResponseToken", t,
                           <<Phase("VerifyCredentialOfferResponse", FALSE)>>,
                           Thrown(ServiceError))
  /\ lastArgs' = [op |-> "verifyCredentialOfferResponseToken", token |-> t, request |-> request]
  /\ UNCHANGED <<sesVars, regVars, accVars, revVars, verifiedTokens, built>>

(***************************************************************************)
(* verifyCredentialShareResponseToken                                      *)
(***************************************************************************)
\* HolderService.verifyCredentialShareResponse
ShareVerdict(t, request, shouldOwn) ==
  LET notOwned == {i \in DOMAIN t.suppliedCredentials :
                      t.suppliedCredentials[i].holder # DidOf(t.iss)}
      errors == (IF SignatureVerifies(t) THEN <<>> ELSE <<"signature">>) \o
                (IF request # NoToken /\ request.jti # t.jti THEN <<"nonce">> ELSE <<>>) \o
                (IF shouldOwn /\ notOwned # {} THEN <<"owner">> ELSE <<>>)
  IN [ isValid |-> errors = <<>>, did |-> DidOf(t.iss), jti |-> t.jti,
       suppliedCredentials |-> t.suppliedCredentials, errors |-> errors ]

\* what the caller's resolver function may answer for a nonce
ResolverAnswers == ShareRequestTokens \cup {NoToken, MalformedToken}

\* the shouldOwn argument as the caller writes it: left out, true or false
ShouldOwnArgs == {"omitted", "true", "false"}

ShouldOwnDefaultFalse(arg) == arg = "true"

\* shouldOwn: boolean = true
ShouldOwnDefault(arg) == arg # "false"

ResolverAnswerRejectedWhenEmpty(answer) == answer = NoToken

\* if (!credentialShareRequestToken) throw COR-15;
\* try { fromJWT(credentialShareRequestToken) } catch { throw COR-15 }
ResolverAnswerRejected(answer) == answer = NoToken \/ ~Decodable(answer)

\* request is a token or nothing; isFunction says the caller passed a resolver,
\* which answers `answer`; shouldOwn is the argument after its default
VerifyShareOutcome(t, request, isFunction, answer, shouldOwn) ==
  IF ~IsJwt(t) \/ (~isFunction /\ request = MalformedToken)
  THEN [steps |-> <<>>, result |-> Thrown("COR-1"), verified |-> FALSE]
  ELSE IF isFunction /\ ResolverAnswerRejected(answer)
  THEN [steps |-> <<UseOf(t, "jti")>>, result |-> Thrown("COR-15"), verified |-> FALSE]
  ELSE LET req == IF isFunction THEN answer ELSE request
           res == ShareVerdict(t, req, shouldOwn)
       IN [ steps |-> (IF isFunction THEN <<UseOf(t, "jti")>> ELSE <<>>) \o <<VerifyOf(t)>>,
            result |-> TokenResult(FALSE, "none", res.isValid, res.did, res.jti,
                                   res.suppliedCredentials, res.errors),
            verified |-> SignatureVerifies(t) ]

VerifyCredentialShareResponseToken(t, request, isFunction, answer, shouldOwnArg) ==
  LET out == VerifyShareOutcome(t, request, isFunction, answer, ShouldOwnDefault(shouldOwnArg))
  IN /\ lastCall' = TokenCall("verifyCredentialShareResponseToken", t, out.steps, out.result)
     /\ lastArgs' = [ op |-> "verifyCredentialShareResponseToken", token |-> t,
                      request |-> request, isFunction |-> isFunction, answer |-> answer,
                      shouldOwn |-> shouldOwnArg ]
     /\ verifiedTokens' = IF out.verified THEN verifiedTokens \cup {t} ELSE verifiedTokens
     /\ UNCHANGED <<sesVars, regVars, accVars, revVars, built>>

DidAuthVerifyOutcomeNotOwned(t, request) ==
  IF ~IsJwt(t) \/ request = MalformedToken
  THEN [steps |-> <<>>, result |-> Thrown("COR-1"), verified |-> FALSE]
  ELSE VerifyShareOutcome(t, request, FALSE, NoToken, FALSE)

\* verifyDidAuthResponse(didAuthResponseToken, didAuthRequestToken)
DidAuthVerifyOutcome(t, request) ==
  IF ~IsJwt(t) \/ request = MalformedToken
  THEN [steps |-> <<>>, result |-> Thrown("COR-1"), verified |-> FALSE]
  ELSE VerifyShareOutcome(t, request, FALSE, NoToken, ShouldOwnDefault("omitted"))

VerifyDidAuthResponse(t, request) ==
  LET out == DidAuthVerifyOutcome(t, request)
  IN /\ lastCall' = TokenCall("verifyDidAuthResponse", t, out.steps, out.result)
     /\ lastArgs' = [op |-> "verifyDidAuthResponse", token |-> t, request |-> request]
     /\ verifiedTokens' = IF out.verified THEN verifiedTokens \cup {t} ELSE verifiedTokens
     /\ UNCHANGED <<sesVars, regVars, accVars, revVars, built>>

(***************************************************************************)
(* generateCredentialShareRequestToken and generateDidAuthRequest          *)
(***************************************************************************)
\* the credentialRequirements a verifier may ask for
PhoneRequirement == [type |-> <<"Credential", PhoneType>>]
EmailRequirement == [type |-> <<"Credential", EmailType>>]
Requirements == {<<>>, <<PhoneRequirement>>, <<EmailRequirement>>}

\* the nonces the interaction builder may draw when the caller gives none
FreshNonces == {"nonce:1", "nonce:2"}

\* options left out by the caller
NoOptions ==
  [audienceDid |-> "none", expiresAt |-> "none", nonce |-> "none", callbackUrl |-> "none"]

\* JwtOptions { audienceDid, expiresAt, nonce, callbackUrl }
JwtOptions ==
  { NoOptions,
    [audienceDid |-> "did:elem:holder", expiresAt |-> "none", nonce |-> "nonce:3",
     callbackUrl |-> "none"],
    [audienceDid |-> "none", expiresAt |-> "past", nonce |-> "none",
     callbackUrl |-> "https://verifier/callback"] }

\* the issuerDid argument: undefined, null, or a DID
IssuerDids == {"undefined", "null", "did:elem:issuer"}

\* const params: any = { credentialRequirements, issuerDid }
\* if (options) { params.audienceDid = ...; expiresAt; nonce; callbackUrl }
RequestParams(credentialRequirements, issuerDid, options) ==
  [ credentialRequirements |-> credentialRequirements, issuerDid |-> issuerDid,
    audienceDid |-> options.audienceDid, expiresAt |-> options.expiresAt,
    nonce |-> options.nonce, callbackUrl |-> options.callbackUrl ]

\* the Verifier API's BuildCredentialRequest: the unsigned request for the
\* parameters; null and undefined both mean no issuer constraint; fresh is
\* the nonce it draws when the parameters name none
BuildCredentialRequest(params, fresh) ==
  [ typ |-> "credentialRequest", iss |-> "none", signedBy |-> "none", kid |-> "none",
    jti |-> IF params.nonce = "none" THEN fresh ELSE params.nonce,
    requirements |-> params.credentialRequirements,
    issuerDid |-> IF params.issuerDid \in {"undefined", "null"} THEN "none"
                  ELSE params.issuerDid,
    audienceDid |-> params.audienceDid, expiresAt |-> params.expiresAt,
    callbackUrl |-> params.callbackUrl,
    selectedCredentials |-> <<>>, suppliedCredentials |-> <<>> ]

\* KeysService.signJWT(jwtObject, keyId) and encodeObjectToJWT: the signature
\* is by the wallet's key; kid is the key id given, if any
SignJWT(jwtObject, key, keyId) ==
  [jwtObject EXCEPT !.iss = key, !.signedBy = key, !.kid = keyId]

\* the outcome of a build operation: the error thrown or the token returned
BuildThrown(code, errors, credentials) ==
  [threw |-> TRUE, code |-> code, errors |-> errors, credentials |-> credentials, token |-> NoToken]
BuildReturned(token) ==
  [threw |-> FALSE, code |-> "none", errors |-> <<>>, credentials |-> <<>>, token |-> token]

BuildStepsSignFirst(valid, builder, built_) ==
  IF ~valid THEN <<Phase("validate", FALSE)>>
  ELSE IF ~built_
  THEN <<Phase("validate", TRUE), Phase("signJWT", TRUE), Phase(builder, FALSE)>>
  ELSE <<Phase("validate", TRUE), Phase("signJWT", TRUE), Phase(builder, TRUE),
         Phase("encodeObjectToJWT", TRUE)>>

BuildStepsRetried(valid, builder, built_) ==
  IF ~valid THEN <<Phase("validate", FALSE)>>
  ELSE IF ~built_
  THEN <<Phase("validate", TRUE), Phase(builder, FALSE), Phase(builder, FALSE)>>
  ELSE <<Phase("validate", TRUE), Phase(builder, TRUE), Phase("signJWT", TRUE),
         Phase("encodeObjectToJWT", TRUE)>>

\* the steps of a build operation: the validation of its arguments, the call
\* of its builder, the signing and the encoding, each with its success; a
\* step that fails throws, so none follows it
BuildSteps(valid, builder, built_) ==
  IF ~valid THEN <<Phase("validate", FALSE)>>
  ELSE IF ~built_ THEN <<Phase("validate", TRUE), Phase(builder, FALSE)>>
  ELSE <<Phase("validate", TRUE), Phase(builder, TRUE), Phase("signJWT", TRUE),
         Phase("encodeObjectToJWT", TRUE)>>

\* await this._verifierApiService.execute(...): out is the outcome when the
\* API answers; when it does not, the request's error is thrown instead
AfterServiceRequest(out, replied) ==
  IF ~out.threw /\ ~replied THEN BuildThrown(ServiceError, <<>>, <<>>) ELSE out

\* the call named by lastArgs has not returned yet
Pending(op) == lastCall = NoTokenCall /\ lastArgs.op = op

\* options that ParametersValidator refuses as JwtOptions
BadOptions ==
  [audienceDid |-> "not a did", expiresAt |-> "none", nonce |-> "none", callbackUrl |-> "none"]

\* ParametersValidator: { type: JwtOptions, isRequired: false, value: options }
OptionsValid(options) == options # BadOptions

\* generateCredentialShareRequestToken(credentialRequirements, issuerDid, options)
ShareRequestOutcome(credentialRequirements, issuerDid, options, fresh) ==
  IF ~OptionsValid(options)
  THEN BuildThrown("COR-1", <<>>, <<>>)
  ELSE BuildReturned(SignJWT(
         BuildCredentialRequest(RequestParams(credentialRequirements, issuerDid, options), fresh),
         VerifierKey, VerifierKey))

\* generateDidAuthRequest(options)
DidAuthRequestOutcome(options, fresh) ==
  IF ~OptionsValid(options)
  THEN BuildThrown("COR-1", <<>>, <<>>)
  ELSE ShareRequestOutcome(<<>>, "null", options, fresh)

ShareRequestSteps(options, replied) ==
  BuildSteps(OptionsValid(options), "BuildCredentialRequest", replied)

GenerateCredentialShareRequestToken ==
  /\ Pending("generateCredentialShareRequestToken")
  /\ LET out == AfterServiceRequest(
                  ShareRequestOutcome(lastArgs.credentialRequirements, lastArgs.issuerDid,
                                      lastArgs.options, lastArgs.fresh),
                  lastArgs.replied)
         steps == ShareRequestSteps(lastArgs.options, lastArgs.replied)
     IN /\ lastCall' = TokenCall(lastArgs.op, NoToken, steps, out)
        /\ built' = [built EXCEPT !.request = out.token]
  /\ UNCHANGED <<sesVars, regVars, accVars, revVars, verifiedTokens, lastArgs>>

GenerateDidAuthRequest ==
  /\ Pending("generateDidAuthRequest")
  /\ LET out == DidAuthRequestOutcome(lastArgs.options, lastArgs.fresh)
     IN /\ lastCall' = TokenCall(lastArgs.op, NoToken, <<>>, out)
        /\ built' = [built EXCEPT !.request = out.token]
  /\ UNCHANGED <<sesVars, regVars, accVars, revVars, verifiedTokens, lastArgs>>

(***************************************************************************)
(* createCredentialShareResponseToken and createDidAuthResponse            *)
(***************************************************************************)
\* longest list of credentials a holder supplies
MaxSupplied == 2

\* a credential as the holder supplies it; issued, issuanceDate, claim and
\* credentialSubject say whether the field is defined
SignedCredentialLike(id, ty, issued, issuanceDate, claim, credentialSubject) ==
  [ id |-> id, type |-> <<"Credential", ty>>, holder |-> "did:elem:holder",
    issued |-> issued, issuanceDate |-> issuanceDate, claim |-> claim,
    credentialSubject |-> credentialSubject ]

\* the credentials that may stand at place i of the supplied list: at the
\* first place every combination of the four fields, at a later place a
\* current credential, a legacy one, one with none of the fields, or one with
\* claim alone
SuppliedAt(i) ==
  IF i = 1
  THEN { SignedCredentialLike(i, ty, a, b, c, d) :
           ty \in {PhoneType, EmailType}, a \in BOOLEAN, b \in BOOLEAN,
           c \in BOOLEAN, d \in BOOLEAN }
  ELSE { SignedCredentialLike(i, ty, f[1], f[2], f[3], f[4]) :
           ty \in {PhoneType, EmailType},
           f \in { <<FALSE, TRUE, FALSE, TRUE>>, <<TRUE, FALSE, TRUE, FALSE>>,
                   <<FALSE, FALSE, FALSE, FALSE>>, <<FALSE, FALSE, TRUE, FALSE>> } }

RECURSIVE SuppliedListsOfLen(_)
SuppliedListsOfLen(n) ==
  IF n = 0 THEN {<<>>}
  ELSE {Append(l, c) : l \in SuppliedListsOfLen(n - 1), c \in SuppliedAt(n)}

SuppliedLists == UNION {SuppliedListsOfLen(n) : n \in 0..MaxSupplied}

\* the share requests a holder may be answering
ReceivedShareRequests ==
  { SignJWT(BuildCredentialRequest(RequestParams(r, "undefined", NoOptions), "nonce:1"),
            VerifierKey, VerifierKey) : r \in Requirements }

IssuedMissing == "Parameter \"issued\" is missing for SignedCredential"
IssuanceDateMissing == "Parameter \"issuanceDate\" is missing for SignedCredential"
CredentialSubjectMissing == "Parameter \"credentialSubject\" is missing for SignedCredential"

\* the messages one credential adds to errors
CredentialErrors(credential) ==
  IF credential.claim
  THEN IF ~credential.issued THEN <<IssuedMissing>> ELSE <<>>
  ELSE (IF ~credential.issuanceDate THEN <<IssuanceDateMissing>> ELSE <<>>) \o
       (IF ~credential.credentialSubject THEN <<CredentialSubjectMissing>> ELSE <<>>)

RECURSIVE StructureErrorsFirstOnly(_, _, _)
StructureErrorsFirstOnly(credentials, i, errors) ==
  IF i > Len(credentials) \/ errors # <<>>
  THEN errors
  ELSE StructureErrorsFirstOnly(credentials, i + 1, errors \o CredentialErrors(credentials[i]))

\* for (const credential of credentials) { ... errors.push(...) ... }: the
\* errors collected from credentials[i..], given those collected so far
RECURSIVE StructureErrors(_, _, _)
StructureErrors(credentials, i, errors) ==
  IF i > Len(credentials)
  THEN errors
  ELSE StructureErrors(credentials, i + 1, errors \o CredentialErrors(credentials[i]))

\* _validateSignedCredentialsSupportedStructures(credentials): the error it
\* throws, or none
ValidateSignedCredentialsSupportedStructures(credentials) ==
  LET errors == StructureErrors(credentials, 1, <<>>)
  IN IF Len(errors) # 0
     THEN [threw |-> TRUE, code |-> "COR-1", errors |-> errors, credentials |-> credentials]
     ELSE [threw |-> FALSE, code |-> "none", errors |-> <<>>, credentials |-> <<>>]

\* the types a share request asks for
RequestConstraintTypes(request) ==
  {request.requirements[i].type[2] : i \in DOMAIN request.requirements}

\* the supplied credentials that meet the request's constraints
FilterByConstraints(request, suppliedCredentials) ==
  LET Meets(c) == request.requirements = <<>> \/ c.type[2] \in RequestConstraintTypes(request)
  IN SelectSeq(suppliedCredentials, Meets)

\* the unsigned response to a request: it repeats the request's nonce
ResponsePayload(request, credentials) ==
  [ typ |-> "credentialResponse", iss |-> "none", signedBy |-> "none", kid |-> "none",
    jti |-> request.jti, selectedCredentials |-> <<>>, suppliedCredentials |-> credentials ]

\* HolderService.buildCredentialResponse: the unsigned response that answers
\* the request with the credentials that meet its constraints; a request that
\* states requirements of which none is met is refused
BuildCredentialResponse(request, suppliedCredentials) ==
  LET remaining == FilterByConstraints(request, suppliedCredentials)
  IN IF request.requirements # <<>> /\ remaining = <<>>
     THEN [threw |-> TRUE, code |-> "NoMatchingCredentialsError", payload |-> NoToken]
     ELSE [threw |-> FALSE, code |-> "none", payload |-> ResponsePayload(request, remaining)]

ShareResponseOutcomeEmptyOnRefusal(request, suppliedCredentials) ==
  LET invalid == ValidateSignedCredentialsSupportedStructures(suppliedCredentials)
      response == BuildCredentialResponse(request, suppliedCredentials)
  IN IF ~IsJwt(request) THEN BuildThrown("COR-1", <<>>, <<>>)
     ELSE IF invalid.threw THEN BuildThrown(invalid.code, invalid.errors, invalid.credentials)
     ELSE IF response.threw
     THEN BuildReturned(SignJWT(ResponsePayload(request, <<>>), HolderKey, HolderKey))
     ELSE BuildReturned(SignJWT(response.payload, HolderKey, HolderKey))

\* createCredentialShareResponseToken(credentialShareRequestToken, suppliedCredentials)
ShareResponseOutcome(request, suppliedCredentials) ==
  LET invalid == ValidateSignedCredentialsSupportedStructures(suppliedCredentials)
      response == BuildCredentialResponse(request, suppliedCredentials)
  IN IF ~IsJwt(request) THEN BuildThrown("COR-1", <<>>, <<>>)
     ELSE IF invalid.threw THEN BuildThrown(invalid.code, invalid.errors, invalid.credentials)
     ELSE IF response.threw THEN BuildThrown(response.code, <<>>, <<>>)
     ELSE BuildReturned(SignJWT(response.payload, HolderKey, HolderKey))

DidAuthResponseOutcomeSupplies(request) ==
  IF ~IsJwt(request) THEN BuildThrown("COR-1", <<>>, <<>>)
  ELSE ShareResponseOutcome(request,
         <<SignedCredentialLike(1, PhoneType, FALSE, TRUE, FALSE, TRUE)>>)

\* createDidAuthResponse(didAuthRequestToken)
DidAuthResponseOutcome(request) ==
  IF ~IsJwt(request) THEN BuildThrown("COR-1", <<>>, <<>>)
  ELSE ShareResponseOutcome(request, <<>>)

ShareResponseSteps(request, suppliedCredentials) ==
  BuildSteps(IsJwt(request)
               /\ ~ValidateSignedCredentialsSupportedStructures(suppliedCredentials).threw,
             "buildCredentialResponse",
             ~BuildCredentialResponse(request, suppliedCredentials).threw)

CreateCredentialShareResponseToken ==
  /\ Pending("createCredentialShareResponseToken")
  /\ LET out == ShareResponseOutcome(lastArgs.request, lastArgs.suppliedCredentials)
         steps == ShareResponseSteps(lastArgs.request, lastArgs.suppliedCredentials)
     IN /\ lastCall' = TokenCall(lastArgs.op, lastArgs.request, steps, out)
        /\ built' = [built EXCEPT !.response = out.token]
  /\ UNCHANGED <<sesVars, regVars, accVars, revVars, verifiedTokens, lastArgs>>

CreateDidAuthResponse ==
  /\ Pending("createDidAuthResponse")
  /\ LET out == DidAuthResponseOutcome(lastArgs.request)
     IN /\ lastCall' = TokenCall(lastArgs.op, lastArgs.request, <<>>, out)
        /\ built' = [built EXCEPT !.response = out.token]
  /\ UNCHANGED <<sesVars, regVars, accVars, revVars, verifiedTokens, lastArgs>>

(***************************************************************************)
(* generatePresentationChallenge, createPresentationFromChallenge and      *)
(* verifyPresentation                                                      *)
(***************************************************************************)
\* the domains a holder may bind a presentation to
Domains == {"verifier.example", "other.example"}

\* a verifiable credential handed to createPresentationFromChallenge: the
\* second type tag names its kind
VcOfType(id, ty) == [id |-> id, type |-> <<"VerifiableCredential", ty>>, signedBy |-> "did:elem:issuer"]

RECURSIVE VcListsOfLen(_)
VcListsOfLen(n) ==
  IF n = 0 THEN {<<>>}
  ELSE {Append(l, VcOfType(n, ty)) : l \in VcListsOfLen(n - 1), ty \in {PhoneType, EmailType}}

VcLists == UNION {VcListsOfLen(n) : n \in 0..MaxSupplied}

PresentationChallengeOutcomeNoOptions(credentialRequirements, issuerDid, options, fresh) ==
  IF ~OptionsValid(options)
  THEN BuildThrown("COR-1", <<>>, <<>>)
  ELSE BuildReturned(SignJWT(
         BuildCredentialRequest(RequestParams(credentialRequirements, issuerDid, NoOptions), fresh),
         VerifierKey, "none"))

\* generatePresentationChallenge(credentialRequirements, issuerDid, options):
\* signJWT is called without a key id
PresentationChallengeOutcome(credentialRequirements, issuerDid, options, fresh) ==
  IF ~OptionsValid(options)
  THEN BuildThrown("COR-1", <<>>, <<>>)
  ELSE BuildReturned(SignJWT(
         BuildCredentialRequest(RequestParams(credentialRequirements, issuerDid, options), fresh),
         VerifierKey, "none"))

\* a challenge that another verifier issued
ForeignChallenge ==
  SignJWT(BuildCredentialRequest(RequestParams(<<PhoneRequirement>>, "undefined", NoOptions),
                                 "nonce:9"), MalloryKey, "none")

\* isW3cCredential(credential): a requirement whose type names a second tag
IsW3cCredential(credential) == Len(credential.type) >= 2

\* getCredentialTypes(credentialRequest): credential.type[1] of every W3C
\* requirement (sequences count from 1 here)
GetCredentialTypes(credentialRequest) ==
  { credentialRequest.requirements[i].type[2] :
      i \in {j \in DOMAIN credentialRequest.requirements :
               IsW3cCredential(credentialRequest.requirements[j])} }

RequestedVcsByFirstTag(vcs, requestedTypes) ==
  LET Requested(vc) == vc.type[1] \in requestedTypes
  IN SelectSeq(vcs, Requested)

\* vcs.filter((vc) => requestedTypes.includes(vc.type[1]))
RequestedVcs(vcs, requestedTypes) ==
  LET Requested(vc) == vc.type[2] \in requestedTypes
  IN SelectSeq(vcs, Requested)

\* buildVPV1Unsigned({ id, vcs, holder })
BuildVPV1Unsigned(vcs, holder) ==
  [ holder |-> holder, signedBy |-> "none", verifiableCredential |-> vcs,
    challenge |-> NoToken, domain |-> "none" ]

\* Affinity.signPresentation({ vp, encryption, purpose }): the wallet's key
\* signs the presentation with the purpose's challenge and domain in its proof
SignPresentation(vp, key, purpose) ==
  [vp EXCEPT !.signedBy = key, !.challenge = purpose.challenge, !.domain = purpose.domain]

\* the outcome of createPresentationFromChallenge: an error thrown or the
\* presentation returned
PresentationThrown(code) == [threw |-> TRUE, code |-> code, presentation |-> NoPresentation]
PresentationReturned(vp) == [threw |-> FALSE, code |-> "none", presentation |-> vp]

\* createPresentationFromChallenge(challenge, vcs, domain)
PresentationOutcome(challenge, vcs, domain) ==
  IF ~IsJwt(challenge)
  THEN PresentationThrown("COR-1")
  ELSE LET requestedTypes == GetCredentialTypes(challenge)
       IN PresentationReturned(
            SignPresentation(
              BuildVPV1Unsigned(RequestedVcs(vcs, requestedTypes), DidOf(HolderKey)),
              HolderKey,
              [challenge |-> challenge, domain |-> domain]))

\* Affinity.validatePresentation(vp): the structure of the presentation and
\* the signatures of the presentation and of its credentials
ValidatePresentation(vp) ==
  IF /\ vp # NoPresentation
     /\ vp.signedBy # "none" /\ DidOf(vp.signedBy) = vp.holder
     /\ \A i \in DOMAIN vp.verifiableCredential :
          vp.verifiableCredential[i].signedBy = "did:elem:issuer"
  THEN [result |-> TRUE, data |-> vp, error |-> "none"]
  ELSE [result |-> FALSE, data |-> NoPresentation, error |-> "invalid presentation"]

\* HolderService.verifyPresentationChallenge(challenge, did): throws unless
\* the challenge decodes, was issued and signed by did and has not expired
VerifyPresentationChallenge(challenge, did) ==
  IF ~Decodable(challenge) THEN [threw |-> TRUE, error |-> "challenge does not decode"]
  ELSE IF ~SignatureVerifies(challenge) \/ DidOf(challenge.iss) # did
  THEN [threw |-> TRUE, error |-> "challenge not issued by the verifier"]
  ELSE IF challenge.expiresAt = "past"
  THEN [threw |-> TRUE, error |-> "challenge expired"]
  ELSE [threw |-> FALSE, error |-> "none"]

\* what verifyPresentation returns or throws
PresentationResult(isValid, did, challenge, suppliedPresentation, errors) ==
  [ threw |-> FALSE, error |-> "none", isValid |-> isValid, did |-> did,
    challenge |-> challenge, suppliedPresentation |-> suppliedPresentation,
    errors |-> errors ]

VerifyThrown(error) ==
  [ threw |-> TRUE, error |-> error, isValid |-> FALSE, did |-> "none",
    challenge |-> NoToken, suppliedPresentation |-> NoPresentation, errors |-> <<>> ]

ChallengeRejectedThrows(data, error) == VerifyThrown(error)

ChallengeRejectedKeepsDid(data, error) ==
  PresentationResult(FALSE, data.holder, data.challenge, data, <<error>>)

\* catch (error) { return { isValid: false, suppliedPresentation: response.data, errors: [error] } }
ChallengeRejected(data, error) ==
  PresentationResult(FALSE, "none", NoToken, data, <<error>>)

ChallengeAcceptedIssuerDid(data) ==
  PresentationResult(TRUE, DidOf(data.challenge.iss), data.challenge, data, <<>>)

\* return { isValid: true, did: response.data.holder.id,
\*          challenge: response.data.proof.challenge, suppliedPresentation: response.data }
ChallengeAccepted(data) ==
  PresentationResult(TRUE, data.holder, data.challenge, data, <<>>)

\* verifyPresentation(vp), called by the verifier
VerifyPresentationOutcome(vp) ==
  LET response == ValidatePresentation(vp)
      check == VerifyPresentationChallenge(response.data.challenge, DidOf(VerifierKey))
  IN IF response.result = TRUE
     THEN [ steps |-> <<Phase("validatePresentation", TRUE),
                        Phase("verifyPresentationChallenge", ~check.threw)>>,
            result |-> IF check.threw
                       THEN ChallengeRejected(response.data, check.error)
                       ELSE ChallengeAccepted(response.data) ]
     ELSE [ steps |-> <<Phase("validatePresentation", FALSE)>>,
            result |-> PresentationResult(FALSE, "none", NoToken, vp, <<response.error>>) ]

VerifyPresentation(vp) ==
  LET out == VerifyPresentationOutcome(vp)
  IN /\ lastCall' = TokenCall("verifyPresentation", NoToken, out.steps, out.result)
     /\ lastArgs' = [op |-> "verifyPresentation", vp |-> vp]
     /\ UNCHANGED <<sesVars, regVars, accVars, revVars, verifiedTokens, built>>

\* the exchange: the verifier generates a challenge, the holder answers a
\* challenge with a presentation, the verifier verifies a presentation
GeneratePresentationChallenge(credentialRequirements, issuerDid, options, fresh) ==
  LET out == PresentationChallengeOutcome(credentialRequirements, issuerDid, options, fresh)
  IN /\ built.challenge = NoToken /\ built.presentation = NoPresentation
     /\ lastCall = NoTokenCall
     /\ lastCall' = TokenCall("generatePresentationChallenge", NoToken, <<>>, out)
     /\ lastArgs' = [ op |-> "generatePresentationChallenge",
                      credentialRequirements |-> credentialRequirements,
                      issuerDid |-> issuerDid, options |-> options, fresh |-> fresh ]
     /\ built' = [built EXCEPT !.challenge = out.token]
     /\ UNCHANGED <<sesVars, regVars, accVars, revVars, verifiedTokens>>

CreatePresentationFromChallenge(challenge, vcs, domain) ==
  LET out == PresentationOutcome(challenge, vcs, domain)
  IN /\ built.presentation = NoPresentation
     /\ lastCall.op \in {"none", "generatePresentationChallenge"}
     /\ lastCall' = TokenCall("createPresentationFromChallenge", challenge, <<>>, out)
     /\ lastArgs' = [ op |-> "createPresentationFromChallenge", challenge |-> challenge,
                      vcs |-> vcs, domain |-> domain ]
     /\ built' = [built EXCEPT !.presentation = out.presentation]
     /\ UNCHANGED <<sesVars, regVars, accVars, revVars, verifiedTokens>>

\* the challenges this verifier generated earlier, one of them expired by now
OwnChallenges ==
  { PresentationChallengeOutcome(<<PhoneRequirement>>, "undefined", o, "nonce:1").token :
      o \in JwtOptions }

\* a presentation signed by a key that is not its holder's
ForgedPresentation ==
  SignPresentation(BuildVPV1Unsigned(<<VcOfType(1, PhoneType)>>, DidOf(HolderKey)), MalloryKey,
                   [challenge |-> ForeignChallenge, domain |-> "verifier.example"])

\* the presentations a verifier may receive
ReceivedPresentations ==
  { PresentationOutcome(c, <<VcOfType(1, PhoneType)>>, "verifier.example").presentation :
      c \in OwnChallenges \cup {ForeignChallenge} } \cup {ForgedPresentation}

(***************************************************************************)
(* generateCredentialOfferRequestToken and                                 *)
(* createCredentialOfferResponseToken                                      *)
(***************************************************************************)
\* OfferedCredential { type, renderInfo? }; an entry without its type is
\* malformed
OfferedPhone == [type |-> PhoneType]
OfferedEmail == [type |-> EmailType]
MalformedOffered == [type |-> "none"]

\* the offeredCredentials an issuer may pass
OfferedLists ==
  { <<>>, <<OfferedPhone>>, <<OfferedEmail>>, <<OfferedPhone, OfferedEmail>>,
    <<MalformedOffered>>, <<OfferedPhone, MalformedOffered>> }

\* ParametersValidator: { isArray: true, type: OfferedCredential,
\* isRequired: true, value: offeredCredentials }
OfferedValid(offeredCredentials) ==
  /\ offeredCredentials # <<>>
  /\ \A i \in DOMAIN offeredCredentials : offeredCredentials[i].type # "none"

\* const params: any = { offeredCredentials }
\* if (options) { params.audienceDid = ...; expiresAt; nonce; callbackUrl }
OfferParams(offeredCredentials, options) ==
  [ offeredCredentials |-> offeredCredentials,
    audienceDid |-> options.audienceDid, expiresAt |-> options.expiresAt,
    nonce |-> options.nonce, callbackUrl |-> options.callbackUrl ]

\* the Issuer API's BuildCredentialOffer: the unsigned offer for the
\* parameters; fresh is the nonce it draws when the parameters name none
BuildCredentialOffer(params, fresh) ==
  [ typ |-> "credentialOfferRequest", iss |-> "none", signedBy |-> "none", kid |-> "none",
    jti |-> IF params.nonce = "none" THEN fresh ELSE params.nonce,
    offeredCredentials |-> params.offeredCredentials,
    audienceDid |-> params.audienceDid, expiresAt |-> params.expiresAt,
    callbackUrl |-> params.callbackUrl,
    selectedCredentials |-> <<>>, suppliedCredentials |-> <<>> ]

OfferRequestOutcomeUnvalidated(offeredCredentials, options, fresh, replied) ==
  IF ~replied
  THEN BuildThrown(ServiceError, <<>>, <<>>)
  ELSE BuildReturned(SignJWT(BuildCredentialOffer(OfferParams(offeredCredentials, options), fresh),
                             VerifierKey, VerifierKey))

\* generateCredentialOfferRequestToken(offeredCredentials, options); replied
\* says whether the Issuer API answered the request
OfferRequestOutcome(offeredCredentials, options, fresh, replied) ==
  IF ~OfferedValid(offeredCredentials) \/ ~OptionsValid(options)
  THEN BuildThrown("COR-1", <<>>, <<>>)
  ELSE IF ~replied
  THEN BuildThrown(ServiceError, <<>>, <<>>)
  ELSE BuildReturned(SignJWT(BuildCredentialOffer(OfferParams(offeredCredentials, options), fresh),
                             VerifierKey, VerifierKey))

OfferRequestSteps(offeredCredentials, options, replied) ==
  BuildSteps(OfferedValid(offeredCredentials) /\ OptionsValid(options),
             "BuildCredentialOffer", replied)

GenerateCredentialOfferRequestToken ==
  /\ Pending("generateCredentialOfferRequestToken")
  /\ LET out == OfferRequestOutcome(lastArgs.offeredCredentials, lastArgs.options,
                                    lastArgs.fresh, lastArgs.replied)
         steps == OfferRequestSteps(lastArgs.offeredCredentials, lastArgs.options,
                                    lastArgs.replied)
     IN /\ lastCall' = TokenCall(lastArgs.op, NoToken, steps, out)
        /\ built' = [built EXCEPT !.request = out.token]
  /\ UNCHANGED <<sesVars, regVars, accVars, revVars, verifiedTokens, lastArgs>>

\* the offers a holder may be answering, and a token that is no offer
ReceivedOfferRequests ==
  { OfferRequestOutcome(l, NoOptions, "nonce:1", TRUE).token :
      l \in {x \in OfferedLists : OfferedValid(x)} }

NotAnOffer ==
  SignJWT(BuildCredentialRequest(RequestParams(<<>>, "undefined", NoOptions), "nonce:1"),
          VerifierKey, VerifierKey)

\* the unsigned response to an offer: it repeats the offer's nonce and selects
\* the credentials named
OfferResponsePayload(request, selected) ==
  [ typ |-> "credentialOfferResponse", iss |-> "none", signedBy |-> "none", kid |-> "none",
    jti |-> request.jti, selectedCredentials |-> selected, suppliedCredentials |-> <<>> ]

\* HolderService.buildCredentialOfferResponse: the unsigned response that
\* selects every offered credential; a token that does not decode to an offer
\* is refused
BuildCredentialOfferResponse(request) ==
  IF request.typ # "credentialOfferRequest"
  THEN [threw |-> TRUE, code |-> "DecodeError", payload |-> NoToken]
  ELSE [ threw |-> FALSE, code |-> "none",
         payload |-> OfferResponsePayload(request, request.offeredCredentials) ]

OfferResponseOutcomeFirstOnly(request) ==
  LET response == BuildCredentialOfferResponse(request)
  IN IF ~IsJwt(request) THEN BuildThrown("COR-1", <<>>, <<>>)
     ELSE IF response.threw THEN BuildThrown(response.code, <<>>, <<>>)
     ELSE BuildReturned(SignJWT(
            OfferResponsePayload(request, SubSeq(request.offeredCredentials, 1, 1)),
            HolderKey, HolderKey))

\* createCredentialOfferResponseToken(credentialOfferToken)
OfferResponseOutcome(request) ==
  LET response == BuildCredentialOfferResponse(request)
  IN IF ~IsJwt(request) THEN BuildThrown("COR-1", <<>>, <<>>)
     ELSE IF response.threw THEN BuildThrown(response.code, <<>>, <<>>)
     ELSE BuildReturned(SignJWT(response.payload, HolderKey, HolderKey))

OfferResponseSteps(request) ==
  BuildSteps(IsJwt(request), "buildCredentialOfferResponse",
             ~BuildCredentialOfferResponse(request).threw)

CreateCredentialOfferResponseToken ==
  /\ Pending("createCredentialOfferResponseToken")
  /\ LET out == OfferResponseOutcome(lastArgs.request)
     IN /\ lastCall' = TokenCall(lastArgs.op, lastArgs.request,
                                 OfferResponseSteps(lastArgs.request), out)
        /\ built' = [built EXCEPT !.response = out.token]
  /\ UNCHANGED <<sesVars, regVars, accVars, revVars, verifiedTokens, lastArgs>>

(***************************************************************************)
(* storeEncryptedSeed(username, password, token): the store request to the *)
(* wallet storage is wrapped in retry(..., { retries: 3 })                 *)
(***************************************************************************)
\* { retries: 3 }: how many times async-retry calls the function again after
\* its first call
Retries == 3

\* const errorCodes = ['COR-1', 'WAL-2']
ErrorCodes == {"COR-1", "WAL-2"}

\* what the wallet storage answers to a store request: success, or a failure
\* with its code
StorageReplies == {"ok", "COR-1", "WAL-2", "WAL-1", "ECONNRESET"}

IdleStore ==
  [ pc |-> "idle", hasToken |-> FALSE, attempts |-> <<>>, outcome |-> "pending",
    error |-> "none", cause |-> "none" ]

\* the operation ends: it resolves, or rejects with error, which wraps cause
StoreEnds(call, outcome, error, cause) ==
  [call EXCEPT !.pc = "done", !.outcome = outcome, !.error = error, !.cause = cause]

AfterStoreReplyFiveAttempts(call, reply) ==
  LET sent == [call EXCEPT !.attempts = Append(@, reply)]
  IN IF reply = "ok" THEN StoreEnds(sent, "ok", "none", "none")
     ELSE IF reply \in ErrorCodes THEN StoreEnds(sent, "error", reply, "none")
     ELSE IF Len(sent.attempts) > Retries + 1 THEN StoreEnds(sent, "error", "COR-18", reply)
     ELSE sent

AfterStoreReplyWrapsKnown(call, reply) ==
  LET sent == [call EXCEPT !.attempts = Append(@, reply)]
  IN IF reply = "ok" THEN StoreEnds(sent, "ok", "none", "none")
     ELSE IF Len(sent.attempts) > Retries THEN StoreEnds(sent, "error", "COR-18", reply)
     ELSE sent

\* one call of the function given to retry, the storage having answered
\* reply: success resolves; a known error code bails out with that error;
\* any other error is wrapped in COR-18 and thrown, and async-retry calls the
\* function again unless it has already retried Retries times, in which case
\* it rejects with the error thrown last
AfterStoreReply(call, reply) ==
  LET sent == [call EXCEPT !.attempts = Append(@, reply)]
  IN IF reply = "ok" THEN StoreEnds(sent, "ok", "none", "none")
     ELSE IF reply \in ErrorCodes THEN StoreEnds(sent, "error", reply, "none")
     ELSE IF Len(sent.attempts) > Retries THEN StoreEnds(sent, "error", "COR-18", reply)
     ELSE sent

\* the call starts: ParametersValidator.validate, then if (!token) the
\* Cognito sign-in, else straight to the encryption key
InvokeStoreEncryptedSeed(valid, hasToken) ==
  /\ storeCall.pc = "idle"
  /\ storeCall' = IF ~valid THEN StoreEnds(storeCall, "error", "COR-1", "none")
                  ELSE [storeCall EXCEPT !.pc = IF hasToken THEN "pullEncryptionKey"
                                                ELSE "signIn",
                                         !.hasToken = hasToken]
  /\ UNCHANGED <<sesVars, regVars, revVars, tokVars, userStatus, signInCall>>

\* this.cognitoUserTokens = await cognitoService.signIn(username, password)
StoreCognitoSignIn(ok) ==
  /\ storeCall.pc = "signIn"
  /\ storeCall' = IF ok THEN [storeCall EXCEPT !.pc = "pullEncryptionKey"]
                  ELSE StoreEnds(storeCall, "error", ServiceError, "none")
  /\ UNCHANGED <<sesVars, regVars, revVars, tokVars, userStatus, signInCall>>

\* const encryptionKey = await WalletStorageService.pullEncryptionKey(accessToken)
StorePullEncryptionKey(ok) ==
  /\ storeCall.pc = "pullEncryptionKey"
  /\ storeCall' = IF ok THEN [storeCall EXCEPT !.pc = "retry"]
                  ELSE StoreEnds(storeCall, "error", ServiceError, "none")
  /\ UNCHANGED <<sesVars, regVars, revVars, tokVars, userStatus, signInCall>>

\* await this._walletStorageService.storeEncryptedSeed(...) inside retry
StoreAttempt(reply) ==
  /\ storeCall.pc = "retry"
  /\ storeCall' = AfterStoreReply(storeCall, reply)
  /\ UNCHANGED <<sesVars, regVars, revVars, tokVars, userStatus, signInCall>>

(***************************************************************************)
(* signIn(username, options, messageParameters) and                        *)
(* confirmSignIn(token, confirmationCode, options)                         *)
(***************************************************************************)
\* the status of a user in Cognito
UserStatuses == {"absent", "unconfirmed", "confirmed"}

\* the usernames a caller may give: an email, a phone number, or an arbitrary
\* username (validateUsername: isUsername); Cognito holds the users signed up
\* by email or phone number
CognitoUsernames == {"user@example.com", "+6590000001"}
Usernames == CognitoUsernames \cup {"arbitrary"}

\* const token = `${username}::${password}`, shown in its pieces
SignUpToken(username) == <<username, "::", "password">>

\* the token of a passwordless login: '{"ChallengeName":"CUSTOM_CHALLENGE",
\* "Session":"...","ChallengeParameters":{"USERNAME":"...","email":"..."}}'
LoginToken(username) == <<"{\"ChallengeName\":\"CUSTOM_CHALLENGE\",\"USERNAME\":", username, "}">>

NoSignInToken == <<>>

\* const isSignUpToken = token.split('::')[1] !== undefined
IsSignUpToken(token) == \E i \in DOMAIN token : token[i] = "::"

\* how many times signIn is called for the username
MaxSignIns == 2

IdleSignIn ==
  [ pc |-> "idle", round |-> 0, username |-> "none", userAtSignIn |-> "none",
    log |-> <<>>, caught |-> "none", token |-> NoSignInToken, outcome |-> "pending",
    error |-> "none", isNew |-> "none", wrongOtps |-> 0 ]

\* the operation in progress throws error
SignInThrows(call, step, error) ==
  [call EXCEPT !.pc = "thrown", !.outcome = "error", !.error = error, !.log = Append(@, step)]

\* signIn returns token
SignInReturns(call, step, token) ==
  [call EXCEPT !.pc = "signedIn", !.outcome = "ok", !.token = token, !.log = Append(@, step)]

\* CognitoService.signUp for a user of the given status: a confirmed user
\* exists already (COR-7); an absent or unconfirmed one is registered and
\* awaits confirmation
CognitoSignUp(status) ==
  IF status = "confirmed" THEN [threw |-> TRUE, code |-> "COR-7", status |-> status]
  ELSE [threw |-> FALSE, code |-> "none", status |-> "unconfirmed"]

SignUpFailedLoginAlways(call, code) ==
  [call EXCEPT !.pc = "passwordlessLogin", !.caught = code, !.log = Append(@, "signUpFailed")]

\* catch (error) { if (error.code === 'COR-7') return await
\* this.passwordlessLogin(...) else throw error }
SignUpFailed(call, code) ==
  IF code = "COR-7"
  THEN [call EXCEPT !.pc = "passwordlessLogin", !.caught = code,
                    !.log = Append(@, "signUpFailed")]
  ELSE SignInThrows([call EXCEPT !.caught = code], "signUpFailed", code)

ConfirmedAsAlwaysNew(call, isSignUpToken) ==
  [call EXCEPT !.pc = "done", !.isNew = "true",
               !.log = Append(@, IF isSignUpToken THEN "confirmSignUp"
                                 ELSE "completeLoginChallenge")]

\* if (isSignUpToken) { ...; return { isNew: true, commonNetworkMember } }
\* ...; return { isNew: false, commonNetworkMember }
ConfirmedAs(call, isSignUpToken) ==
  [call EXCEPT !.pc = "done", !.isNew = IF isSignUpToken THEN "true" ELSE "false",
               !.log = Append(@, IF isSignUpToken THEN "confirmSignUp"
                                 ELSE "completeLoginChallenge")]

\* the wrong confirmation codes Cognito takes for one login session before it
\* ends the session
MaxWrongOtps == 3

OtpRejectedNeverLocks(call) ==
  [call EXCEPT !.pc = "signedIn", !.outcome = "error", !.error = "COR-5",
               !.wrongOtps = @ + 1, !.log = Append(@, "wrongOtp")]

\* CognitoService.completeLoginChallenge with a wrong confirmation code: COR-5
\* while the session goes on (the caller may call confirmSignIn with the same
\* token again), COR-13 when the session has ended
OtpRejected(call) ==
  IF call.wrongOtps + 1 < MaxWrongOtps
  THEN [call EXCEPT !.pc = "signedIn", !.outcome = "error", !.error = "COR-5",
                    !.wrongOtps = @ + 1, !.log = Append(@, "wrongOtp")]
  ELSE SignInThrows([call EXCEPT !.wrongOtps = @ + 1], "wrongOtp", "COR-13")

\* signIn is called, for the first time or after an earlier signIn or
\* confirmSignIn has ended: ParametersValidator.validate, then the try block
InvokeSignIn(username, valid) ==
  /\ signInCall.pc \in {"idle", "thrown", "done"}
  /\ signInCall.round < MaxSignIns
  /\ LET call == [IdleSignIn EXCEPT !.round = signInCall.round + 1,
                                    !.username = username,
                                    !.userAtSignIn = IF username \in CognitoUsernames
                                                     THEN userStatus[username]
                                                     ELSE "absent"]
     IN signInCall' =
          IF ~valid THEN SignInThrows(call, "validateFailed", "COR-1")
          ELSE [call EXCEPT !.pc = "signUp"]
  /\ UNCHANGED <<sesVars, regVars, revVars, tokVars, storeCall, userStatus>>

\* return await this.signUp(username, null, options, messageParameters):
\* _signUp refuses an arbitrary username without a password; otherwise
\* Cognito answers the sign-up request
SignUp ==
  /\ signInCall.pc = "signUp"
  /\ IF signInCall.username = "arbitrary"
     THEN /\ signInCall' = SignUpFailed(signInCall, "COR-1")
          /\ UNCHANGED userStatus
     ELSE LET answer == CognitoSignUp(userStatus[signInCall.username])
          IN /\ userStatus' = [userStatus EXCEPT ![signInCall.username] = answer.status]
             /\ signInCall' = IF answer.threw THEN SignUpFailed(signInCall, answer.code)
                              ELSE SignInReturns(signInCall, "signUp",
                                                 SignUpToken(signInCall.username))
  /\ UNCHANGED <<sesVars, regVars, revVars, tokVars, storeCall>>

\* the sign-up request fails with another error (network or service)
SignUpFails ==
  /\ signInCall.pc = "signUp" /\ signInCall.username # "arbitrary"
  /\ signInCall' = SignUpFailed(signInCall, ServiceError)
  /\ UNCHANGED <<sesVars, regVars, revVars, tokVars, storeCall, userStatus>>

\* passwordlessLogin: the message template is stored if messageParameters is
\* given, then Cognito starts the login and answers the token
PasswordlessLogin(ok) ==
  /\ signInCall.pc = "passwordlessLogin"
  /\ signInCall' = IF ok THEN SignInReturns(signInCall, "passwordlessLogin",
                                            LoginToken(signInCall.username))
                   ELSE SignInThrows(signInCall, "passwordlessLoginFailed", ServiceError)
  /\ UNCHANGED <<sesVars, regVars, revVars, tokVars, storeCall, userStatus>>

\* confirmSignIn is called with the token signIn returned: validation, then
\* the branch on the kind of token
InvokeConfirmSignIn(valid) ==
  /\ signInCall.pc = "signedIn"
  /\ signInCall' =
       IF ~valid THEN SignInThrows(signInCall, "validateFailed", "COR-1")
       ELSE [signInCall EXCEPT !.pc = IF IsSignUpToken(signInCall.token)
                                      THEN "confirmSignUp" ELSE "completeLoginChallenge"]
  /\ UNCHANGED <<sesVars, regVars, revVars, tokVars, storeCall, userStatus>>

\* const commonNetworkMember = await this.confirmSignUp(...);
\* return { isNew: true, commonNetworkMember }
ConfirmSignUp(codeOk) ==
  /\ signInCall.pc = "confirmSignUp"
  /\ IF codeOk /\ userStatus[signInCall.username] = "unconfirmed"
     THEN /\ userStatus' = [userStatus EXCEPT ![signInCall.username] = "confirmed"]
          /\ signInCall' = ConfirmedAs(signInCall, TRUE)
     ELSE /\ UNCHANGED userStatus
          /\ signInCall' = SignInThrows(signInCall, "confirmSignUpFailed", ServiceError)
  /\ UNCHANGED <<sesVars, regVars, revVars, tokVars, storeCall>>

\* const commonNetworkMember = await this.completeLoginChallenge(...);
\* return { isNew: false, commonNetworkMember }
CompleteLoginChallenge(codeOk) ==
  /\ signInCall.pc = "completeLoginChallenge"
  /\ signInCall' = IF codeOk
                   THEN ConfirmedAs(signInCall, FALSE)
                   ELSE OtpRejected(signInCall)
  /\ UNCHANGED <<sesVars, regVars, revVars, tokVars, storeCall, userStatus>>

\* a request of completeLoginChallenge fails (Cognito, or the pull of the
\* encrypted seed or of the encryption key)
CompleteLoginChallengeFails ==
  /\ signInCall.pc = "completeLoginChallenge"
  /\ signInCall' = SignInThrows(signInCall, "completeLoginChallengeFailed", ServiceError)
  /\ UNCHANGED <<sesVars, regVars, revVars, tokVars, storeCall, userStatus>>

(***************************************************************************)
(* signUp and confirmSignUp.  Usernames, passwords and tokens are texts,   *)
(* sequences of characters, so that the token is joined and split as the   *)
(* code joins and splits it.                                               *)
(***************************************************************************)
\* the delimiter of `${username}::${password}`
Delimiter == <<":", ":">>

\* what indexing past the end of an array gives
Undefined == <<"undefined">>

\* password null or undefined
NoPassword == <<"null">>

\* (await randomBytes(32)).toString('hex').replace(/[a-f]/, 'A'), shortened
RandomPassword == <<"A", "9", "f">>

\* usernames given to signUp: an email, a phone number, an arbitrary username,
\* an arbitrary username with the delimiter inside
RegUsernames ==
  { <<"a", "@", "b">>, <<"+", "6", "5">>, <<"b", "o", "b">>, <<"b", ":", ":", "o">> }

\* passwords given to signUp: none, and passwords without and with colons,
\* standing for passwords long enough for normalizeShortPassword to leave them
\* as they are
RegPasswords ==
  { NoPassword, <<"P", "w", "1">>, <<"P", ":", "1">>, <<"P", ":", ":", "1">> }

\* validateUsername(username)
ValidateUsername(username) ==
  LET isEmailValid == \E i \in DOMAIN username : username[i] = "@"
      isPhoneNumberValid == username # <<>> /\ username[1] = "+"
  IN [ isEmailValid |-> isEmailValid, isPhoneNumberValid |-> isPhoneNumberValid,
       isUsername |-> ~isEmailValid /\ ~isPhoneNumberValid ]

\* String.prototype.split('::'): the pieces of the text between the
\* occurrences of the delimiter, found from left to right
RECURSIVE SplitFrom(_, _, _)
SplitFrom(text, i, piece) ==
  IF i > Len(text) THEN <<piece>>
  ELSE IF i < Len(text) /\ text[i] = ":" /\ text[i + 1] = ":"
       THEN <<piece>> \o SplitFrom(text, i + 2, <<>>)
       ELSE SplitFrom(text, i + 1, Append(piece, text[i]))

Split(text) == SplitFrom(text, 1, <<>>)

\* parts[n], n counted from 0
Part(parts, n) == IF n + 1 <= Len(parts) THEN parts[n + 1] ELSE Undefined

\* const token = `${username}::${password}`
JoinToken(username, password) == username \o Delimiter \o password

\* const isSignUpToken = token.split('::')[1] !== undefined, on a text
IsSignUpTokenText(token) == Part(Split(token), 1) # Undefined

NoUser == [username |-> <<>>, password |-> <<>>, status |-> "absent"]
NoRecovered == [username |-> Undefined, password |-> Undefined]

IdleReg ==
  [ pc |-> "idle", via |-> "none", username |-> <<>>, password |-> NoPassword,
    skipBackupEncryptedSeed |-> FALSE, keyParams |-> FALSE, token |-> <<>>,
    code |-> "none", recovered |-> NoRecovered, user |-> NoUser, log |-> <<>>,
    outcome |-> "pending", error |-> "none", hooks |-> 0, stored |-> 0 ]

RegIdle == regCall = IdleReg

\* the operation in progress throws error
RegThrows(call, step, error) ==
  [call EXCEPT !.pc = "thrown", !.outcome = "error", !.error = error, !.log = Append(@, step)]

\* signUp returns the token
RegReturnsToken(call) == [call EXCEPT !.pc = "tokenReturned", !.outcome = "token"]

\* the operation returns the initialized instance
RegReturnsInstance(call) == [call EXCEPT !.pc = "returned", !.outcome = "instance"]

\* confirmSignUp and confirmSignUpWithExistsEntity up to the call of
\* _confirmSignUp, and the split of the token in _confirmSignUp: the
\* confirmation code is required when the username taken from the token is an
\* email or a phone number
EnterConfirmSignUp(call, via, code, keyParams) ==
  LET parts == Split(call.token)
      v == ValidateUsername(Part(parts, 0))
      entered == [call EXCEPT !.via = via, !.code = code, !.keyParams = keyParams]
  IN IF (v.isEmailValid \/ v.isPhoneNumberValid) /\ code = "none"
     THEN RegThrows(entered, "validateFailed", "COR-1")
     ELSE [entered EXCEPT !.pc = IF keyParams THEN "confirmUser" ELSE "register",
                          !.recovered = [username |-> Part(parts, 0),
                                         password |-> Part(parts, 1)]]

AfterSignUpAlwaysToken(call, isUsername) == RegReturnsToken(call)

\* if (!isUsername) { return token }; return this.confirmSignUp(token, '', options)
AfterSignUp(call, isUsername) ==
  IF ~isUsername THEN RegReturnsToken(call)
  ELSE EnterConfirmSignUp(call, "signUp", "none", FALSE)

ConfirmedSkipsHook(call) == RegReturnsInstance(call)

\* _confirmSignUp has returned the instance: confirmSignUp awaits
\* this.afterConfirmSignUp(result, options) and returns the result;
\* confirmSignUpWithExistsEntity returns it as it is
Confirmed(call) ==
  IF call.keyParams THEN RegReturnsInstance(call)
  ELSE [call EXCEPT !.pc = "afterConfirmSignUp"]

AfterReencryptAlwaysStores(call) == [call EXCEPT !.pc = "store"]

\* new self(encryptionKey, updatedEncryptedSeed, options);
\* if (skipBackupEncryptedSeed) { return commonNetworkMember }
AfterReencrypt(call) ==
  IF call.skipBackupEncryptedSeed THEN Confirmed(call)
  ELSE [call EXCEPT !.pc = "store"]

\* signUp is called: _signUp validates, the password being required for an
\* arbitrary username
InvokeSignUp(username, password, skipBackupEncryptedSeed) ==
  /\ regCall.pc = "idle"
  /\ LET call == [IdleReg EXCEPT !.username = username, !.password = password,
                                 !.skipBackupEncryptedSeed = skipBackupEncryptedSeed]
     IN regCall' =
          IF ValidateUsername(username).isUsername /\ password = NoPassword
          THEN RegThrows(call, "validateFailed", "COR-1")
          ELSE [call EXCEPT !.pc = "cognitoSignUp"]
  /\ UNCHANGED <<sesVars, revVars, tokVars, accVars>>

\* await cognitoService.signUp(username, password, ...), then the token is
\* made and signUp returns it or goes on to confirmSignUp
RegSignUp(ok) ==
  /\ regCall.pc = "cognitoSignUp"
  /\ regCall' =
       IF ~ok THEN RegThrows(regCall, "signUpFailed", ServiceError)
       ELSE LET password == IF regCall.password = NoPassword THEN RandomPassword
                            ELSE regCall.password
                signedUp == [regCall EXCEPT
                               !.user = [username |-> regCall.username,
                                         password |-> password, status |-> "unconfirmed"],
                               !.token = JoinToken(regCall.username, password),
                               !.log = Append(@, "signUp")]
            IN AfterSignUp(signedUp, ValidateUsername(regCall.username).isUsername)
  /\ UNCHANGED <<sesVars, revVars, tokVars, accVars>>

\* confirmSignUp is called with the token signUp returned, by the caller or
\* by confirmSignIn
InvokeConfirmSignUp(via, code, skipBackupEncryptedSeed) ==
  /\ regCall.pc = "tokenReturned"
  /\ regCall' = EnterConfirmSignUp(
                  [regCall EXCEPT !.skipBackupEncryptedSeed = skipBackupEncryptedSeed],
                  via, code, FALSE)
  /\ UNCHANGED <<sesVars, revVars, tokVars, accVars>>

\* confirmSignUpWithExistsEntity is called with the token and the keys made
\* earlier
InvokeConfirmSignUpWithExistsEntity(code, skipBackupEncryptedSeed) ==
  /\ regCall.pc = "tokenReturned"
  /\ regCall' = EnterConfirmSignUp(
                  [regCall EXCEPT !.skipBackupEncryptedSeed = skipBackupEncryptedSeed],
                  "withExistsEntity", code, TRUE)
  /\ UNCHANGED <<sesVars, revVars, tokVars, accVars>>

\* const result = await self.register(passwordHash, options)
Register(ok) ==
  /\ regCall.pc = "register"
  /\ regCall' = IF ok THEN [regCall EXCEPT !.pc = "confirmUser", !.log = Append(@, "register")]
                ELSE RegThrows(regCall, "registerFailed", ServiceError)
  /\ UNCHANGED <<sesVars, revVars, tokVars, accVars>>

\* _confirmSignUpUser: adminConfirmUser for an arbitrary username, else
\* cognitoService.confirmSignUp(username, confirmationCode); the user must be
\* the one that signed up, and the code the one that was sent
ConfirmSignUpUser(ok) ==
  /\ regCall.pc = "confirmUser"
  /\ LET username == regCall.recovered.username
         known == regCall.user.username = username /\ regCall.user.status = "unconfirmed"
         accepted == IF ValidateUsername(username).isUsername THEN known
                     ELSE known /\ regCall.code = "right"
     IN regCall' =
          IF ok /\ accepted
          THEN [regCall EXCEPT !.pc = "signIn", !.user.status = "confirmed",
                               !.log = Append(@, "confirmUser")]
          ELSE RegThrows(regCall, "confirmUserFailed", ServiceError)
  /\ UNCHANGED <<sesVars, revVars, tokVars, accVars>>

\* options.cognitoUserTokens = await cognitoService.signIn(username, password)
RegCognitoSignIn(ok) ==
  /\ regCall.pc = "signIn"
  /\ LET accepted == /\ regCall.user.username = regCall.recovered.username
                     /\ regCall.user.password = regCall.recovered.password
                     /\ regCall.user.status = "confirmed"
     IN regCall' =
          IF ok /\ accepted
          THEN [regCall EXCEPT !.pc = "pullEncryptionKey", !.log = Append(@, "signIn")]
          ELSE RegThrows(regCall, "signInFailed", ServiceError)
  /\ UNCHANGED <<sesVars, revVars, tokVars, accVars>>

\* await WalletStorageService.pullEncryptionKey(accessToken), then the seed is
\* encrypted again and the instance is made
RegPullEncryptionKey(ok) ==
  /\ regCall.pc = "pullEncryptionKey"
  /\ regCall' =
       IF ok THEN AfterReencrypt([regCall EXCEPT !.log = Append(@, "pullEncryptionKey")])
       ELSE RegThrows(regCall, "pullEncryptionKeyFailed", ServiceError)
  /\ UNCHANGED <<sesVars, revVars, tokVars, accVars>>

\* await commonNetworkMember.storeEncryptedSeed('', '', accessToken)
RegStoreEncryptedSeed(ok) ==
  /\ regCall.pc = "store"
  /\ regCall' =
       IF ok THEN Confirmed([regCall EXCEPT !.stored = @ + 1,
                                           !.log = Append(@, "storeEncryptedSeed")])
       ELSE RegThrows([regCall EXCEPT !.stored = @ + 1], "storeEncryptedSeedFailed", "COR-18")
  /\ UNCHANGED <<sesVars, revVars, tokVars, accVars>>

\* await this.afterConfirmSignUp(result, options); return result
AfterConfirmSignUp(ok) ==
  /\ regCall.pc = "afterConfirmSignUp"
  /\ LET called == [regCall EXCEPT !.hooks = @ + 1, !.log = Append(@, "afterConfirmSignUp")]
     IN regCall' = IF ok THEN RegReturnsInstance(called)
                   ELSE RegThrows(called, "afterConfirmSignUpFailed", ServiceError)
  /\ UNCHANGED <<sesVars, revVars, tokVars, accVars>>

(***************************************************************************)
(* Logins: fromLoginAndPassword and completeLoginChallenge, which keep the  *)
(* Cognito tokens in the options object the caller gave.                   *)
(***************************************************************************)
\* the login calls, each for a user of its own
LoginCalls == {1, 2}
LoginUserOf(k) == IF k = 1 THEN "alice" ELSE "bob"
LoginOps == {"fromLoginAndPassword", "completeLoginChallenge"}

\* the options objects of the callers
OptionsObjects == {"optionsA", "optionsB"}

\* what Cognito answers to the login of the user
CognitoUserTokens(user) == <<"tokens of", user>>
NoTokens == <<>>

IdleLogin ==
  [ pc |-> "idle", op |-> "none", options |-> "none", accessToken |-> NoTokens,
    cognitoUserTokens |-> NoTokens, outcome |-> "pending", error |-> "none" ]

IdleLogins ==
  [ options |-> [o \in OptionsObjects |-> NoTokens], calls |-> [k \in LoginCalls |-> IdleLogin] ]

LoginThrows(call, error) == [call EXCEPT !.pc = "thrown", !.outcome = "error", !.error = error]

\* the constructor: this.cognitoUserTokens = cognitoUserTokens, taken from
\* the options object as it is when the instance is made
NewInstance(call, options) ==
  [call EXCEPT !.pc = "returned", !.outcome = "instance", !.cognitoUserTokens = options]

\* the login is called with an options object: ParametersValidator.validate
InvokeLogin(k, op, options, valid) ==
  /\ logins.calls[k].pc = "idle"
  /\ logins' = [logins EXCEPT !.calls[k] =
                  IF valid THEN [IdleLogin EXCEPT !.pc = "cognito", !.op = op, !.options = options]
                  ELSE LoginThrows([IdleLogin EXCEPT !.op = op, !.options = options], "COR-1")]
  /\ UNCHANGED <<revVars, tokVars, accVars, regVars, wallet>>

\* options.cognitoUserTokens = await cognitoService.signIn(username, password)
\* (or completeLoginChallenge(token, confirmationCode));
\* const { accessToken } = options.cognitoUserTokens
LoginCognito(k, ok) ==
  /\ logins.calls[k].pc = "cognito"
  /\ LET call == logins.calls[k]
         tokens == CognitoUserTokens(LoginUserOf(k))
     IN logins' =
          IF ok
          THEN [logins EXCEPT !.options[call.options] = tokens,
                              !.calls[k] = [call EXCEPT !.pc = "pullEncryptedSeed",
                                                        !.accessToken = tokens]]
          ELSE [logins EXCEPT !.calls[k] = LoginThrows(call, ServiceError)]
  /\ UNCHANGED <<revVars, tokVars, accVars, regVars, wallet>>

\* const encryptedSeed = await WalletStorageService.pullEncryptedSeed(accessToken, ...)
LoginPullEncryptedSeed(k, ok) ==
  /\ logins.calls[k].pc = "pullEncryptedSeed"
  /\ logins' = [logins EXCEPT !.calls[k] =
                  IF ok THEN [@ EXCEPT !.pc = "pullEncryptionKey"]
                  ELSE LoginThrows(@, ServiceError)]
  /\ UNCHANGED <<revVars, tokVars, accVars, regVars, wallet>>

\* const encryptionKey = await WalletStorageService.pullEncryptionKey(accessToken);
\* return new this(encryptionKey, encryptedSeed, options)
LoginPullEncryptionKey(k, ok) ==
  /\ logins.calls[k].pc = "pullEncryptionKey"
  /\ logins' = [logins EXCEPT !.calls[k] =
                  IF ok THEN NewInstance(@, logins.options[@.options])
                  ELSE LoginThrows(@, ServiceError)]
  /\ UNCHANGED <<revVars, tokVars, accVars, regVars, wallet>>

(***************************************************************************)
(* AffinityWallet.deleteCredential.                                        *)
(***************************************************************************)
\* the places of the vault (index: string) and the credentials kept there
VaultIndexes == {"0", "1", "2"}
NoCredentialId == "undefined"
EmptyId == ""
VaultIds == {"claimId:a", "claimId:b", "claimId:c"}

\* the id argument: left out, empty, of a stored credential, of none
DeleteIds == {NoCredentialId, EmptyId, "claimId:a", "claimId:b", "claimId:x"}
\* the credentialIndex argument: left out, or an index
NoIndex == "undefined"
DeleteIndexes == {NoIndex} \cup VaultIndexes

\* the vault when the wallet is opened
FullVault == [i \in VaultIndexes |->
               IF i = "0" THEN "claimId:a" ELSE IF i = "1" THEN "claimId:b" ELSE "claimId:c"]

IdleDelete ==
  [ pc |-> "idle", id |-> NoCredentialId, credentialIndex |-> NoIndex, index |-> NoIndex,
    before |-> FullVault, lookups |-> 0, deleted |-> {}, outcome |-> "pending",
    error |-> "none" ]

IdleWallet == [vault |-> FullVault, call |-> IdleDelete]

DeleteThrows(call, error) == [call EXCEPT !.pc = "thrown", !.outcome = "error", !.error = error]

BothGivenNever(id, credentialIndex) == FALSE

\* credentialIndex !== undefined && id
BothGiven(id, credentialIndex) ==
  credentialIndex # NoIndex /\ id \notin {NoCredentialId, EmptyId}

\* deleteCredential is called: the check of the arguments, then
\* credentialIndex ?? (await findCredentialIndexById(id))
InvokeDeleteCredential(id, credentialIndex) ==
  /\ wallet.call.pc \in {"idle", "thrown", "returned"}
  /\ LET call == [IdleDelete EXCEPT !.id = id, !.credentialIndex = credentialIndex,
                                    !.before = wallet.vault]
     IN wallet' = [wallet EXCEPT !.call =
          IF BothGiven(id, credentialIndex)
          THEN DeleteThrows(call, "COR-1")
          ELSE IF credentialIndex # NoIndex
               THEN [call EXCEPT !.pc = "delete", !.index = credentialIndex]
               ELSE [call EXCEPT !.pc = "find"]]
  /\ UNCHANGED <<revVars, tokVars, accVars, regVars, logins>>

\* await this._walletStorageService.findCredentialIndexById(id)
FindCredentialIndexById(ok) ==
  /\ wallet.call.pc = "find"
  /\ LET call == [wallet.call EXCEPT !.lookups = @ + 1]
         found == {i \in VaultIndexes : wallet.vault[i] = call.id}
     IN wallet' = [wallet EXCEPT !.call =
          IF ok /\ found # {}
          THEN [call EXCEPT !.pc = "delete", !.index = CHOOSE i \in found : TRUE]
          ELSE DeleteThrows(call, ServiceError)]
  /\ UNCHANGED <<revVars, tokVars, accVars, regVars, logins>>

\* return this.deleteCredentialByIndex(index)
DeleteCredentialByIndex(ok) ==
  /\ wallet.call.pc = "delete"
  /\ LET call == wallet.call
     IN wallet' =
          IF ok /\ wallet.vault[call.index] # NoCredentialId
          THEN [vault |-> [wallet.vault EXCEPT ![call.index] = NoCredentialId],
                call |-> [call EXCEPT !.pc = "returned", !.outcome = "ok",
                                      !.deleted = @ \cup {call.index}]]
          ELSE [wallet EXCEPT !.call = DeleteThrows(call, ServiceError)]
  /\ UNCHANGED <<revVars, tokVars, accVars, regVars, logins>>

(***************************************************************************)
(* Initial states.                                                         *)
(***************************************************************************)
\* an unsigned credential as the caller builds it (no credentialStatus yet)
UnsignedCredential(c, x) ==
  [id |-> c, holder |-> HolderOf(c), context |-> x, credentialStatus |-> NoStatus]

\* o1 is a credential with any of the input contexts; o2 is a second object,
\* for the same credential id or for another one
InputObjects ==
  { [o \in Objs |-> IF o = "o1" THEN UnsignedCredential("cred:1", x)
                                ELSE UnsignedCredential(c, <<VcContext, AppContext>>)] :
      x \in InputContexts, c \in CredIds }

\* the first n entries the service holds already, filling lists in order; the
\* first of them has the status st
PreEntries(n, st) ==
  { [NewEntry(PreIds[i], ((i - 1) \div ListSize) + 1, (i - 1) % ListSize)
       EXCEPT !.status = IF i = 1 THEN st ELSE "valid"] : i \in 1..n }

\* the service starts with no list, with a list that has one free index, or
\* with a full list
PreCounts == {0, ListSize - 1, ListSize}

ListsNeeded(n) == (n + ListSize - 1) \div ListSize

Init ==
  /\ objs \in InputObjects
  /\ \E n \in PreCounts, st \in {"valid", "revoked"} :
       /\ entries = PreEntries(n, st)
       /\ nLists = ListsNeeded(n)
       /\ published = [l \in 1..ListsNeeded(n) |->
                         SignCredentialOracle(ListCredentialOf(PreEntries(n, st), l))]
  /\ calls = [k \in Calls |-> IdleCall]
  /\ verifiedTokens = {}
  /\ lastCall = NoTokenCall
  /\ lastArgs = NoArgs
  /\ built = NothingBuilt
  /\ storeCall = IdleStore
  /\ userStatus = [u \in CognitoUsernames |-> "absent"]
  /\ signInCall = IdleSignIn
  /\ RegIdle
  /\ logins = IdleLogins
  /\ wallet = IdleWallet

\* the calls that have returned to their callers
Returned == {j \in Calls : calls[j].pc = "done"}

\* calls are numbered in the order in which they are invoked
CanInvoke(k) ==
  /\ calls[k].pc = "idle"
  /\ \A j \in Calls : j < k => calls[j].pc # "idle"

(***************************************************************************)
(* buildRevocationListStatus(unsignedCredential, accessToken)              *)
(***************************************************************************)
\* the call starts: it reads id and holder.id and sends the build request
InvokeBuild(k, o) ==
  /\ CanInvoke(k)
  /\ calls' = [calls EXCEPT ![k] =
       [@ EXCEPT !.pc = "build", !.op = "build", !.obj = o,
                 !.credentialId = BuildRequest(objs[o]).credentialId,
                 !.subjectDid = BuildRequest(objs[o]).subjectDid,
                 !.inContext = objs[o].context, !.after = Returned]]
  /\ UNCHANGED <<sesVars, regVars, accVars, tokVars, objs, entries, nLists, published>>

\* the service handles the build request
ServiceBuild(k) ==
  /\ calls[k].pc = "build"
  /\ LET r == ServiceBuildStatus([credentialId |-> calls[k].credentialId,
                                  subjectDid |-> calls[k].subjectDid])
     IN /\ entries' = r.entries
        /\ nLists' = r.nLists
        /\ calls' = [calls EXCEPT ![k] =
             [@ EXCEPT !.pc = "attach", !.reply = r.reply, !.log = Append(@, "build")]]
  /\ UNCHANGED <<sesVars, regVars, accVars, tokVars, objs, published>>

\* the build request fails (network or service error)
ServiceBuildFails(k) ==
  /\ calls[k].pc = "build"
  /\ calls' = [calls EXCEPT ![k] = Rejected(@, "buildFailed", "service")]
  /\ UNCHANGED <<sesVars, regVars, accVars, tokVars, objs, entries, nLists, published>>

\* the continuation after the awaited build: the copy, the push, the branch
AttachStatus(k) ==
  /\ calls[k].pc = "attach"
  /\ LET o == calls[k].obj
         copy == AssignStatus(objs[o], calls[k].reply.credentialStatus)
         pushed == PushRevocationContext(copy.context)
     IN \* the copy is shallow: its @context is the array of the input object
        /\ objs' = [objs EXCEPT ![o].context = pushed]
        /\ calls' = [calls EXCEPT ![k] = AfterAttach(@, [copy EXCEPT !.context = pushed])]
  /\ UNCHANGED <<sesVars, regVars, accVars, tokVars, entries, nLists, published>>

(***************************************************************************)
(* revokeCredential(credentialId, revocationReason, accessToken)           *)
(***************************************************************************)
InvokeRevoke(k, c) ==
  /\ CanInvoke(k)
  /\ calls' = [calls EXCEPT ![k] =
       [@ EXCEPT !.pc = "revoke", !.op = "revoke", !.credentialId = c,
                 !.after = Returned]]
  /\ UNCHANGED <<sesVars, regVars, accVars, tokVars, objs, entries, nLists, published>>

\* the service handles the revoke request: it flips the entry or rejects
ServiceRevoke(k) ==
  /\ calls[k].pc = "revoke"
  /\ LET c == calls[k].credentialId
     IN IF RevokeAccepted(c)
        THEN /\ entries' = Flip(c)
             /\ calls' = [calls EXCEPT ![k] =
                  AfterRevokeReply(@, TRUE,
                    [NoReply EXCEPT !.revocationListCredential =
                       ListCredentialOf(Flip(c), ListOfCredential(c))],
                    "none")]
        ELSE /\ entries' = entries
             /\ calls' = [calls EXCEPT ![k] =
                  AfterRevokeReply(@, FALSE, NoReply,
                    IF EntriesOf(c) = {} THEN "unknownCredential" ELSE "alreadyRevoked")]
  /\ UNCHANGED <<sesVars, regVars, accVars, tokVars, objs, nLists, published>>

\* the revoke request fails (network or service error)
ServiceRevokeFails(k) ==
  /\ calls[k].pc = "revoke"
  /\ calls' = [calls EXCEPT ![k] = Rejected(@, "revokeFailed", "service")]
  /\ UNCHANGED <<sesVars, regVars, accVars, tokVars, objs, entries, nLists, published>>

(***************************************************************************)
(* Steps common to both operations: sign the list credential, stamp it,    *)
(* publish it.                                                             *)
(***************************************************************************)
\* await signCredential(...) resolves; the issuanceDate is set; publish is sent
SignListCredential(k) ==
  /\ calls[k].pc = "sign"
  /\ \E d \in Dates :
       LET signed == SignCredentialOracle(calls[k].reply.revocationListCredential)
       IN calls' = [calls EXCEPT ![k] = AfterSign(@, signed, d)]
  /\ UNCHANGED <<sesVars, regVars, accVars, tokVars, objs, entries, nLists, published>>

SignFails(k) ==
  /\ calls[k].pc = "sign"
  /\ calls' = [calls EXCEPT ![k] = Rejected(@, "signFailed", "sign")]
  /\ UNCHANGED <<sesVars, regVars, accVars, tokVars, objs, entries, nLists, published>>

\* the service stores the published list credential
ServicePublish(k) ==
  /\ calls[k].pc = "publish"
  /\ published' = [l \in DOMAIN published \cup {calls[k].sent.id} |->
                     IF l = calls[k].sent.id THEN calls[k].sent ELSE published[l]]
  /\ calls' = [calls EXCEPT ![k] = [@ EXCEPT !.pc = "published", !.log = Append(@, "publish")]]
  /\ UNCHANGED <<sesVars, regVars, accVars, tokVars, objs, entries, nLists>>

ServicePublishFails(k) ==
  /\ calls[k].pc = "publish"
  /\ calls' = [calls EXCEPT ![k] = Rejected(@, "publishFailed", "service")]
  /\ UNCHANGED <<sesVars, regVars, accVars, tokVars, objs, entries, nLists, published>>

\* the awaited publish resolves and the call returns
Return(k) ==
  /\ calls[k].pc = "published"
  /\ calls' = [calls EXCEPT ![k] =
       AfterPublish(@, IF @.op = "build"
                       THEN AssignStatus(objs[@.obj], @.reply.credentialStatus)
                       ELSE NoResult)]
  /\ UNCHANGED <<sesVars, regVars, accVars, tokVars, objs, entries, nLists, published>>

Next ==
  \/ \E k \in Calls, o \in Objs : InvokeBuild(k, o)
  \/ \E k \in Calls : ServiceBuild(k)
  \/ \E k \in Calls : ServiceBuildFails(k)
  \/ \E k \in Calls : AttachStatus(k)
  \/ \E k \in Calls, c \in CredIds : InvokeRevoke(k, c)
  \/ \E k \in Calls : ServiceRevoke(k)
  \/ \E k \in Calls : ServiceRevokeFails(k)
  \/ \E k \in Calls : SignListCredential(k)
  \/ \E k \in Calls : SignFails(k)
  \/ \E k \in Calls : ServicePublish(k)
  \/ \E k \in Calls : ServicePublishFails(k)
  \/ \E k \in Calls : Return(k)

Spec == Init /\ [][Next]_vars

(***************************************************************************)
(* The token operations, called in any order with any received tokens.     *)
(***************************************************************************)
InitTokens ==
  /\ objs = [o \in Objs |-> UnsignedCredential("cred:1", <<VcContext, AppContext>>)]
  /\ entries = {}
  /\ nLists = 0
  /\ published = <<>>
  /\ calls = [k \in Calls |-> IdleCall]
  /\ verifiedTokens = {}
  /\ lastCall = NoTokenCall
  /\ lastArgs = NoArgs
  /\ built = NothingBuilt
  /\ storeCall = IdleStore
  /\ userStatus = [u \in CognitoUsernames |-> "absent"]
  /\ signInCall = IdleSignIn
  /\ RegIdle
  /\ logins = IdleLogins
  /\ wallet = IdleWallet

NextTokens ==
  \/ \E t \in OfferResponseTokens \cup {MalformedToken}, params \in ParamLists :
       SignCredentials(t, params)
  \/ \E ty \in {PhoneType, EmailType}, t \in OfferResponseTokens \cup {NoToken},
        x \in ExpirationDates :
       SignCredential(<<"Credential", ty>>,
                      [credentialOfferResponseToken |-> t, requesterDid |-> HolderKey], x)
  \/ \E t \in OfferResponseTokens \cup {MalformedToken},
        request \in OfferRequestTokens \cup {NoToken} :
       VerifyCredentialOfferResponseToken(t, request)
  \/ \E t \in ShareResponseTokens \cup {MalformedToken},
        request \in ShareRequestTokens \cup {NoToken, MalformedToken},
        shouldOwn \in ShouldOwnArgs :
       VerifyCredentialShareResponseToken(t, request, FALSE, NoToken, shouldOwn)
  \/ \E t \in ShareResponseTokens \cup {MalformedToken},
        answer \in ResolverAnswers, shouldOwn \in ShouldOwnArgs :
       VerifyCredentialShareResponseToken(t, NoToken, TRUE, answer, shouldOwn)

SpecTokens == InitTokens /\ [][NextTokens]_vars

(***************************************************************************)
(* The build operations of the share flow: one call, with any arguments.   *)
(***************************************************************************)
ShareCalls ==
  { [op |-> "createCredentialShareResponseToken", request |-> q, suppliedCredentials |-> l] :
      q \in ReceivedShareRequests \cup {MalformedToken}, l \in SuppliedLists } \cup
  { [op |-> "createDidAuthResponse", request |-> q] :
      q \in ReceivedShareRequests \cup {MalformedToken} } \cup
  { [ op |-> "verifyCredentialShareResponseToken", token |-> t, request |-> q,
      isFunction |-> FALSE, answer |-> NoToken, shouldOwn |-> o ] :
      t \in ShareResponseTokens \cup {MalformedToken},
      q \in ShareRequestTokens \cup {NoToken, MalformedToken}, o \in ShouldOwnArgs } \cup
  { [ op |-> "verifyCredentialShareResponseToken", token |-> t, request |-> NoToken,
      isFunction |-> TRUE, answer |-> a, shouldOwn |-> o ] :
      t \in ShareResponseTokens \cup {MalformedToken},
      a \in ResolverAnswers, o \in ShouldOwnArgs } \cup
  { [op |-> "verifyCredentialOfferResponseToken", token |-> t, request |-> q] :
      t \in OfferResponseTokens \cup {MalformedToken},
      q \in OfferRequestTokens \cup {NoToken} } \cup
  { [op |-> "verifyPresentation", vp |-> vp] : vp \in ReceivedPresentations } \cup
  { [op |-> "verifyDidAuthResponse", token |-> t, request |-> q] :
      t \in ShareResponseTokens \cup {MalformedToken},
      q \in ShareRequestTokens \cup {NoToken, MalformedToken} } \cup
  { [ op |-> "generateCredentialShareRequestToken", credentialRequirements |-> r,
      issuerDid |-> i, options |-> o, fresh |-> n, replied |-> b ] :
      r \in Requirements, i \in IssuerDids, o \in JwtOptions \cup {BadOptions},
      n \in FreshNonces, b \in BOOLEAN } \cup
  { [op |-> "generateDidAuthRequest", options |-> o, fresh |-> n] :
      o \in JwtOptions \cup {BadOptions}, n \in FreshNonces } \cup
  { [ op |-> "generateCredentialOfferRequestToken", offeredCredentials |-> l,
      options |-> o, fresh |-> n, replied |-> b ] :
      l \in OfferedLists, o \in JwtOptions \cup {BadOptions}, n \in FreshNonces,
      b \in BOOLEAN } \cup
  { [op |-> "createCredentialOfferResponseToken", request |-> q] :
      q \in ReceivedOfferRequests \cup {NotAnOffer, MalformedToken} }

InitShare ==
  /\ objs = [o \in Objs |-> UnsignedCredential("cred:1", <<VcContext, AppContext>>)]
  /\ entries = {}
  /\ nLists = 0
  /\ published = <<>>
  /\ calls = [k \in Calls |-> IdleCall]
  /\ verifiedTokens = {}
  /\ lastCall = NoTokenCall
  /\ lastArgs \in ShareCalls
  /\ built = NothingBuilt
  /\ storeCall = IdleStore
  /\ userStatus = [u \in CognitoUsernames |-> "absent"]
  /\ signInCall = IdleSignIn
  /\ RegIdle
  /\ logins = IdleLogins
  /\ wallet = IdleWallet

NextShare ==
  \/ CreateCredentialShareResponseToken
  \/ CreateDidAuthResponse
  \/ /\ Pending("verifyCredentialShareResponseToken")
     /\ VerifyCredentialShareResponseToken(lastArgs.token, lastArgs.request,
          lastArgs.isFunction, lastArgs.answer, lastArgs.shouldOwn)
  \/ /\ Pending("verifyCredentialOfferResponseToken")
     /\ VerifyCredentialOfferResponseToken(lastArgs.token, lastArgs.request)
  \/ /\ Pending("verifyPresentation")
     /\ VerifyPresentation(lastArgs.vp)
  \/ /\ Pending("verifyDidAuthResponse")
     /\ VerifyDidAuthResponse(lastArgs.token, lastArgs.request)
  \/ GenerateCredentialShareRequestToken
  \/ GenerateDidAuthRequest
  \/ GenerateCredentialOfferRequestToken
  \/ CreateCredentialOfferResponseToken

SpecShare == InitShare /\ [][NextShare]_vars

(***************************************************************************)
(* The operations that send requests to services: the revocation-list      *)
(* operations, called as in Spec, or one call of an exchange operation.    *)
(***************************************************************************)
InitOperations == Init \/ InitShare

NextOperations ==
  \/ lastArgs = NoArgs /\ Next
  \/ NextShare
  \/ /\ Pending("verifyCredentialOfferResponseToken")
     /\ VerifyCredentialOfferResponseFails(lastArgs.token, lastArgs.request)

SpecOperations == InitOperations /\ [][NextOperations]_vars

(***************************************************************************)
(* One call of storeEncryptedSeed, with any answers of the services.       *)
(***************************************************************************)
NextStore ==
  \/ \E valid \in BOOLEAN, hasToken \in BOOLEAN : InvokeStoreEncryptedSeed(valid, hasToken)
  \/ \E ok \in BOOLEAN : StoreCognitoSignIn(ok)
  \/ \E ok \in BOOLEAN : StorePullEncryptionKey(ok)
  \/ \E reply \in StorageReplies : StoreAttempt(reply)

SpecStore == InitTokens /\ [][NextStore]_vars

(***************************************************************************)
(* A signIn call and the confirmSignIn call that follows it, for a user of *)
(* any status.                                                             *)
(***************************************************************************)
InitSignIn ==
  /\ objs = [o \in Objs |-> UnsignedCredential("cred:1", <<VcContext, AppContext>>)]
  /\ entries = {}
  /\ nLists = 0
  /\ published = <<>>
  /\ calls = [k \in Calls |-> IdleCall]
  /\ verifiedTokens = {}
  /\ lastCall = NoTokenCall
  /\ lastArgs = NoArgs
  /\ built = NothingBuilt
  /\ storeCall = IdleStore
  /\ userStatus \in [CognitoUsernames -> UserStatuses]
  /\ signInCall = IdleSignIn
  /\ RegIdle
  /\ logins = IdleLogins
  /\ wallet = IdleWallet

NextSignIn ==
  \/ \E username \in Usernames, valid \in BOOLEAN : InvokeSignIn(username, valid)
  \/ SignUp
  \/ SignUpFails
  \/ \E ok \in BOOLEAN : PasswordlessLogin(ok)
  \/ \E valid \in BOOLEAN : InvokeConfirmSignIn(valid)
  \/ \E codeOk \in BOOLEAN : ConfirmSignUp(codeOk)
  \/ \E codeOk \in BOOLEAN : CompleteLoginChallenge(codeOk)
  \/ CompleteLoginChallengeFails

SpecSignIn == InitSignIn /\ [][NextSignIn]_vars

NextRegistration ==
  \/ \E username \in RegUsernames, password \in RegPasswords, skip \in BOOLEAN :
       InvokeSignUp(username, password, skip)
  \/ \E ok \in BOOLEAN : RegSignUp(ok)
  \/ \E via \in {"direct", "confirmSignIn"}, code \in {"right", "wrong", "none"},
        skip \in BOOLEAN :
       InvokeConfirmSignUp(via, code, skip)
  \/ \E code \in {"right", "wrong", "none"}, skip \in BOOLEAN :
       InvokeConfirmSignUpWithExistsEntity(code, skip)
  \/ \E ok \in BOOLEAN : Register(ok)
  \/ \E ok \in BOOLEAN : ConfirmSignUpUser(ok)
  \/ \E ok \in BOOLEAN : RegCognitoSignIn(ok)
  \/ \E ok \in BOOLEAN : RegPullEncryptionKey(ok)
  \/ \E ok \in BOOLEAN : RegStoreEncryptedSeed(ok)
  \/ \E ok \in BOOLEAN : AfterConfirmSignUp(ok)

SpecRegistration == InitTokens /\ [][NextRegistration]_vars

NextLogins ==
  \/ \E k \in LoginCalls, op \in LoginOps, options \in OptionsObjects, valid \in BOOLEAN :
       InvokeLogin(k, op, options, valid)
  \/ \E k \in LoginCalls, ok \in BOOLEAN : LoginCognito(k, ok)
  \/ \E k \in LoginCalls, ok \in BOOLEAN : LoginPullEncryptedSeed(k, ok)
  \/ \E k \in LoginCalls, ok \in BOOLEAN : LoginPullEncryptionKey(k, ok)

SpecLogins == InitTokens /\ [][NextLogins]_vars

NextWallet ==
  \/ \E id \in DeleteIds, credentialIndex \in DeleteIndexes :
       InvokeDeleteCredential(id, credentialIndex)
  \/ \E ok \in BOOLEAN : FindCredentialIndexById(ok)
  \/ \E ok \in BOOLEAN : DeleteCredentialByIndex(ok)

SpecWallet == InitTokens /\ [][NextWallet]_vars

\* revocations alone: the two credentials of the callers were given their
\* entries, in the same list, by earlier builds, and the list was published
\* with none revoked
RevocableEntries == {NewEntry("cred:1", 1, 0), NewEntry("cred:2", 1, 1)}

InitRevocations ==
  /\ objs = [o \in Objs |-> UnsignedCredential("cred:1", <<VcContext, AppContext>>)]
  /\ entries = RevocableEntries
  /\ nLists = 1
  /\ published = [l \in {1} |-> SignCredentialOracle(ListCredentialOf(RevocableEntries, l))]
  /\ calls = [k \in Calls |-> IdleCall]
  /\ verifiedTokens = {}
  /\ lastCall = NoTokenCall
  /\ lastArgs = NoArgs
  /\ built = NothingBuilt
  /\ storeCall = IdleStore
  /\ userStatus = [u \in CognitoUsernames |-> "absent"]
  /\ signInCall = IdleSignIn
  /\ RegIdle
  /\ logins = IdleLogins
  /\ wallet = IdleWallet

NextRevocations ==
  \/ \E k \in Calls, c \in CredIds : InvokeRevoke(k, c)
  \/ \E k \in Calls : ServiceRevoke(k)
  \/ \E k \in Calls : ServiceRevokeFails(k)
  \/ \E k \in Calls : SignListCredential(k)
  \/ \E k \in Calls : SignFails(k)
  \/ \E k \in Calls : ServicePublish(k)
  \/ \E k \in Calls : ServicePublishFails(k)
  \/ \E k \in Calls : Return(k)

SpecRevocations == InitRevocations /\ [][NextRevocations]_vars

(***************************************************************************)
(* The presentation exchange: challenge, presentation, verification.       *)
(***************************************************************************)
NextPresentation ==
  \/ \E r \in Requirements, i \in IssuerDids, o \in JwtOptions \cup {BadOptions},
        n \in FreshNonces :
       GeneratePresentationChallenge(r, i, o, n)
  \/ \E c \in {built.challenge, ForeignChallenge, MalformedToken} \ {NoToken},
        vcs \in VcLists, d \in Domains :
       CreatePresentationFromChallenge(c, vcs, d)
  \/ \E vp \in {built.presentation, ForgedPresentation} :
       /\ lastCall.op = "createPresentationFromChallenge"
       /\ VerifyPresentation(vp)

SpecPresentation == InitTokens /\ [][NextPresentation]_vars

(***************************************************************************)
(* An exchange between two parties: one builds a request, the other builds *)
(* the response to it, the first verifies the response.                    *)
(***************************************************************************)
\* no call is in progress
Returning == lastArgs = NoArgs \/ lastCall # NoTokenCall

\* a party calls an operation with the arguments args
Invoke(args) ==
  /\ Returning
  /\ lastArgs' = args
  /\ lastCall' = NoTokenCall
  /\ UNCHANGED <<sesVars, regVars, accVars, revVars, verifiedTokens, built>>

\* the calls the parties make, each passing on the tokens built so far
ExchangeCalls ==
  IF built.request = NoToken /\ lastArgs = NoArgs
  THEN { [op |-> "generateDidAuthRequest", options |-> o, fresh |-> n] :
           o \in JwtOptions \cup {BadOptions}, n \in FreshNonces } \cup
       { [ op |-> "generateCredentialOfferRequestToken", offeredCredentials |-> l,
           options |-> o, fresh |-> n, replied |-> b ] :
           l \in OfferedLists, o \in JwtOptions \cup {BadOptions}, n \in FreshNonces,
           b \in BOOLEAN }
  ELSE IF built.request # NoToken /\ built.response = NoToken
          /\ lastCall.op = "generateDidAuthRequest"
  THEN { [op |-> "createDidAuthResponse", request |-> built.request] }
  ELSE IF built.request # NoToken /\ built.response = NoToken
          /\ lastCall.op = "generateCredentialOfferRequestToken"
  THEN { [op |-> "createCredentialOfferResponseToken", request |-> built.request] }
  ELSE IF built.response # NoToken /\ lastCall.op = "createDidAuthResponse"
  THEN { [op |-> "verifyDidAuthResponse", token |-> built.response, request |-> q] :
           q \in {built.request, NoToken} }
  ELSE IF built.response # NoToken /\ lastCall.op = "createCredentialOfferResponseToken"
  THEN { [op |-> "verifyCredentialOfferResponseToken", token |-> built.response,
          request |-> q] : q \in {built.request, NoToken} }
  ELSE {}

NextExchange ==
  \/ \E args \in ExchangeCalls : Invoke(args)
  \/ GenerateDidAuthRequest
  \/ CreateDidAuthResponse
  \/ /\ Pending("verifyDidAuthResponse")
     /\ VerifyDidAuthResponse(lastArgs.token, lastArgs.request)
  \/ GenerateCredentialOfferRequestToken
  \/ CreateCredentialOfferResponseToken
  \/ /\ Pending("verifyCredentialOfferResponseToken")
     /\ VerifyCredentialOfferResponseToken(lastArgs.token, lastArgs.request)

SpecExchange == InitTokens /\ [][NextExchange]_vars

(***************************************************************************)
(* Properties of the revocation-list operations.                           *)
(***************************************************************************)
Count(seq, x) == Cardinality({i \in DOMAIN seq : seq[i] = x})

Before(seq, x, y) == \E i, j \in DOMAIN seq : i < j /\ seq[i] = x /\ seq[j] = y

Failures == {"buildFailed", "revokeFailed", "revokeRejected", "signFailed", "publishFailed"}

Failed(k) == \E i \in DOMAIN calls[k].log : calls[k].log[i] \in Failures

BuildCalls == {k \in Calls : calls[k].op = "build"}
RevokeCalls == {k \in Calls : calls[k].op = "revoke"}

\* C1: a buildRevocationListStatus call signs or publishes a list credential
\* only when the service's build result carries the publish flag; a call that
\* returns has signed and published exactly once when the flag was set, and
\* not at all when it was not.
C1_PublishExactlyWhenRequired ==
  \A k \in BuildCalls :
    LET c == calls[k]
        acted == Count(c.log, "sign") + Count(c.log, "publish") > 0
                   \/ c.pc \in {"sign", "publish", "published"}
                   \/ c.sent # NoCredential
    IN /\ acted => c.reply.isPublisRequired
       /\ c.outcome = "ok" =>
            IF c.reply.isPublisRequired
            THEN Count(c.log, "sign") = 1 /\ Count(c.log, "publish") = 1
            ELSE ~acted

\* both cases of C1 have happened: a build that published and one that did not
C1_Witness ==
  \E k1, k2 \in BuildCalls :
    /\ calls[k1].outcome = "ok" /\ calls[k1].reply.isPublisRequired
    /\ Count(calls[k1].log, "publish") = 1
    /\ calls[k2].outcome = "ok" /\ ~calls[k2].reply.isPublisRequired
    /\ Count(calls[k2].log, "build") = 1

\* C2: when a publish is required, buildRevocationListStatus returns the
\* credential only after the list credential was signed and its publish
\* completed; a call in which a step failed returns no credential.
C2_ReturnOnlyAfterPublish ==
  \A k \in BuildCalls :
    LET c == calls[k]
    IN /\ (c.outcome = "ok" /\ c.reply.isPublisRequired) =>
            /\ Before(c.log, "sign", "publish")
            /\ Before(c.log, "publish", "return")
            /\ ~Failed(k)
       /\ Failed(k) => c.outcome = "error" /\ c.result = NoResult
       /\ c.outcome = "ok" => c.result.credentialStatus = c.reply.credentialStatus

\* a build that needed a publish has returned its credential, the list
\* credential it sent being the one the service holds
C2_Witness ==
  \E k \in BuildCalls :
    /\ calls[k].outcome = "ok" /\ calls[k].reply.isPublisRequired
    /\ calls[k].result # NoResult
    /\ calls[k].log = <<"build", "sign", "publish", "return">>
    /\ published[calls[k].sent.id] = calls[k].sent

\* C3: a revokeCredential call that succeeded has done, in this order and once
\* each, the flip at the service, the signing of the returned list credential
\* and the publish of the signed list credential.
C3_RevokeFlipSignPublish ==
  \A k \in RevokeCalls :
    LET c == calls[k]
    IN c.outcome = "ok" =>
         /\ c.log = <<"flip", "sign", "publish", "return">>
         /\ c.signed = SignCredentialOracle(c.reply.revocationListCredential)
         /\ c.sent.id = c.signed.id /\ c.sent.revoked = c.signed.revoked
         /\ c.sent.proof = c.signed.proof

C3_Witness ==
  \E k \in RevokeCalls : calls[k].outcome = "ok" /\ Count(calls[k].log, "publish") = 1

\* C4: the list credential handed to publishRevocationListCredential is field
\* for field the credential the signing step returned (issuanceDate included).
C4_PublishedAsSigned ==
  \A k \in Calls : calls[k].sent # NoCredential => calls[k].sent = calls[k].signed

\* C6: two buildRevocationListStatus calls for the same credentialId, however
\* they interleave, leave exactly one index allocated for it, and both get and
\* return the listIndex of that one entry.
C6_OneAllocationPerCredential ==
  \A k1, k2 \in BuildCalls :
    (k1 # k2 /\ calls[k1].credentialId = calls[k2].credentialId) =>
      LET c == calls[k1].credentialId
          handled(k) == Count(calls[k].log, "build") = 1
      IN /\ (handled(k1) \/ handled(k2)) => Cardinality(EntriesOf(c)) = 1
         /\ \A k \in {k1, k2} :
              handled(k) =>
                \E e \in EntriesOf(c) :
                  /\ calls[k].reply.credentialStatus.listIndex = e.index
                  /\ calls[k].reply.credentialStatus.listCredentialId = e.list
                  /\ calls[k].outcome = "ok" =>
                       /\ calls[k].result.credentialStatus.listIndex = e.index
                       /\ calls[k].result.credentialStatus.listCredentialId = e.list

\* two builds for one credentialId were in flight together and both returned
C6_Witness ==
  \E k1, k2 \in BuildCalls :
    /\ k1 < k2 /\ calls[k1].credentialId = calls[k2].credentialId
    /\ k1 \notin calls[k2].after
    /\ calls[k1].outcome = "ok" /\ calls[k2].outcome = "ok"

\* C7: of two buildRevocationListStatus calls for the same credentialId, the
\* second made after the first returned and the credential not revoked, both
\* return the same listIndex, and the second gets isPublisRequired = false and
\* neither signs nor publishes.
C7_BuildTwiceIdempotent ==
  \A k1, k2 \in BuildCalls :
    ( /\ calls[k1].credentialId = calls[k2].credentialId
      /\ k1 \in calls[k2].after
      /\ calls[k1].outcome = "ok" /\ calls[k2].outcome = "ok"
      /\ \A e \in EntriesOf(calls[k1].credentialId) : e.status = "valid" ) =>
        /\ calls[k1].result.credentialStatus.listIndex =
             calls[k2].result.credentialStatus.listIndex
        /\ calls[k1].result.credentialStatus.listCredentialId =
             calls[k2].result.credentialStatus.listCredentialId
        /\ ~calls[k2].reply.isPublisRequired
        /\ Count(calls[k2].log, "sign") = 0 /\ Count(calls[k2].log, "publish") = 0
        /\ calls[k2].sent = NoCredential

C7_Witness ==
  \E k1, k2 \in BuildCalls :
    /\ calls[k1].credentialId = calls[k2].credentialId
    /\ k1 \in calls[k2].after
    /\ calls[k1].outcome = "ok" /\ calls[k2].outcome = "ok"
    /\ calls[k1].reply.isPublisRequired
    /\ \A e \in EntriesOf(calls[k1].credentialId) : e.status = "valid"

\* C8: a status entry is never deleted and never leaves "revoked", and the
\* entry of a credential whose revokeCredential call succeeded reads "revoked"
\* in every later state.
C8_RevokedStaysRevoked ==
  /\ [][\A e \in entries :
          \E f \in entries' :
            /\ f.credentialId = e.credentialId /\ f.list = e.list /\ f.index = e.index
            /\ e.status = "revoked" => f.status = "revoked"]_vars
  /\ [](\A k \in RevokeCalls :
          calls[k].outcome = "ok" =>
            /\ EntriesOf(calls[k].credentialId) # {}
            /\ \A e \in EntriesOf(calls[k].credentialId) : e.status = "revoked")

\* a credential was revoked and a later build call for it has returned
C8_Witness ==
  \E k \in RevokeCalls, b \in BuildCalls :
    /\ calls[k].outcome = "ok"
    /\ calls[b].credentialId = calls[k].credentialId
    /\ k \in calls[b].after /\ calls[b].outcome = "ok"

\* C9: when the service rejects the revoke request (credential unknown or
\* already revoked), revokeCredential fails with the service's error and
\* neither signs nor publishes.
C9_RejectedRevokeSurfaces ==
  \A k \in RevokeCalls :
    LET c == calls[k]
    IN Count(c.log, "revokeRejected") = 1 =>
         /\ c.pc = "done" /\ c.outcome = "error"
         /\ c.error \in {"unknownCredential", "alreadyRevoked"}
         /\ c.log = <<"revokeRejected">>
         /\ c.signed = NoCredential /\ c.sent = NoCredential

\* both rejections have happened: an unknown and an already revoked credential
C9_Witness ==
  \E k1, k2 \in RevokeCalls :
    /\ calls[k1].error = "unknownCredential"
    /\ calls[k2].error = "alreadyRevoked"

\* C10: the credential buildRevocationListStatus returns carries the revocation
\* context exactly once, after the contexts of the input in their order.
C10_RevocationContextOnce ==
  \A k \in BuildCalls :
    LET c == calls[k]
    IN c.outcome = "ok" =>
         /\ Count(c.result.context, RevocationContext) = 1
         /\ Len(c.result.context) >= Len(c.inContext)
         /\ SubSeq(c.result.context, 1, Len(c.inContext)) = c.inContext

(***************************************************************************)
(* Properties of the token operations.                                     *)
(***************************************************************************)
\* C5: no operation puts a claim of a received token to use (selectedCredentials
\* and iss in signCredentials and signCredential, jti in
\* verifyCredentialShareResponseToken) unless the signature of that token was
\* verified before, in an earlier operation or an earlier step of this one.
C5_ClaimsUsedOnlyAfterVerification ==
  \A i \in DOMAIN lastCall.steps :
    lastCall.steps[i].e = "use" =>
      \/ lastCall.steps[i].verified
      \/ \E j \in 1..(i - 1) :
           /\ lastCall.steps[j].e = "verify" /\ lastCall.steps[j].ok
           /\ lastCall.steps[j].token = lastCall.steps[i].token

(***************************************************************************)
(* Properties of the share-response build operations.                      *)
(***************************************************************************)
\* the call named op has returned
Done(op) == lastCall.op = op /\ lastArgs.op = op

\* the places of the supplied list whose credential has neither date field
LackBothDates(credentials) ==
  {i \in DOMAIN credentials : ~credentials[i].issuanceDate /\ ~credentials[i].issued}

\* the date field the code asks of a credential: issued of one that carries
\* claim, issuanceDate of any other
DateMessage(credential) == IF credential.claim THEN IssuedMissing ELSE IssuanceDateMissing

CurrentShape(c) == c.issuanceDate /\ c.credentialSubject /\ ~c.issued /\ ~c.claim
LegacyShape(c) == c.issued /\ c.claim /\ ~c.issuanceDate /\ ~c.credentialSubject

\* C12: createCredentialShareResponseToken returns a response only if every
\* supplied credential has exactly one of the two shapes, the current one
\* (issuanceDate and credentialSubject) or the legacy one (issued and claim),
\* and no field of the other shape
C12_OnlyOneShapeAccepted ==
  (Done("createCredentialShareResponseToken") /\ ~lastCall.result.threw)
  => \A i \in DOMAIN lastArgs.suppliedCredentials :
       CurrentShape(lastArgs.suppliedCredentials[i]) \/ LegacyShape(lastArgs.suppliedCredentials[i])

\* the credentials the returned call was given
SuppliedOf ==
  IF lastArgs.op = "createDidAuthResponse" THEN <<>> ELSE lastArgs.suppliedCredentials

\* a share-response build call has returned, its request being a token and
\* its credentials passing the structure check
ResponseBuildDone ==
  /\ Done("createCredentialShareResponseToken") \/ Done("createDidAuthResponse")
  /\ IsJwt(lastArgs.request)
  /\ \A i \in DOMAIN SuppliedOf : CredentialErrors(SuppliedOf[i]) = <<>>

\* no supplied credential is of a type the request asks for
NoneRemains ==
  \A i \in DOMAIN SuppliedOf :
    \A j \in DOMAIN lastArgs.request.requirements :
      SuppliedOf[i].type[2] # lastArgs.request.requirements[j].type[2]

Submitted == \E i \in DOMAIN lastCall.steps : lastCall.steps[i].e = "verify"

\* C14: when verifyCredentialShareResponseToken is given a resolver function
\* and the resolver returns nothing, or something that does not decode as a
\* token, for the response's nonce, the call throws COR-15: the response is
\* not submitted for verification and no isValid=true result is returned
C14_UnresolvedRequestIsReplayError ==
  (Done("verifyCredentialShareResponseToken") /\ IsJwt(lastCall.token)
     /\ lastArgs.isFunction /\ lastArgs.answer \in {NoToken, MalformedToken})
  => /\ lastCall.result.threw
     /\ lastCall.result.error = "COR-15"
     /\ ~lastCall.result.isValid
     /\ ~Submitted

C14_Witness ==
  /\ Done("verifyCredentialShareResponseToken")
  /\ lastArgs.isFunction /\ lastArgs.answer = MalformedToken
  /\ SignatureVerifies(lastCall.token)
  /\ lastCall.steps = <<UseOf(lastCall.token, "jti")>>
  /\ lastCall.result.error = "COR-15"

\* the request the response was verified against, if any
RequestUsed == IF lastArgs.isFunction THEN lastArgs.answer ELSE lastArgs.request

\* a well-formed, genuinely signed response that answers the request and
\* supplies a credential held by another DID than the responder's
ForeignCredentialVerified ==
  /\ Done("verifyCredentialShareResponseToken")
  /\ SignatureVerifies(lastCall.token)
  /\ \/ ~lastArgs.isFunction /\ RequestUsed = NoToken
     \/ IsJwt(RequestUsed) /\ RequestUsed.jti = lastCall.token.jti
  /\ \E i \in DOMAIN lastCall.token.suppliedCredentials :
       lastCall.token.suppliedCredentials[i].holder # DidOf(lastCall.token.iss)

\* C15: a share response supplying a credential whose holder.id is not the
\* responder's DID, verified with shouldOwn true (given, or left at its
\* default), yields isValid=false with a non-empty errors sequence and does
\* not throw; verified with shouldOwn=false it yields isValid=true
C15_OwnershipCheck ==
  ForeignCredentialVerified
  => /\ ~lastCall.result.threw
     /\ lastArgs.shouldOwn \in {"true", "omitted"}
          => ~lastCall.result.isValid /\ lastCall.result.errors # <<>>
     /\ lastArgs.shouldOwn = "false" => lastCall.result.isValid

C15_Witness ==
  /\ ForeignCredentialVerified
  /\ lastArgs.shouldOwn = "omitted"
  /\ ~lastCall.result.isValid
  /\ lastCall.result.errors = <<"owner">>

(***************************************************************************)
(* Properties of the presentation operations.                              *)
(***************************************************************************)
\* verifyPresentation has returned; what its two phases find for its argument
FirstPhasePasses == ValidatePresentation(lastArgs.vp).result
ChallengeCheck == VerifyPresentationChallenge(lastArgs.vp.challenge, DidOf(VerifierKey))

\* C17: verifyPresentation checks the embedded challenge only after the
\* validation of the presentation succeeded, and returns isValid=true only
\* when both phases passed; when validation passes and the challenge check
\* raises, it returns isValid=false, suppliedPresentation the validated
\* presentation, errors holding that exception, and neither did nor challenge
C17_TwoPhases ==
  Done("verifyPresentation")
  => /\ \A i \in DOMAIN lastCall.steps :
          lastCall.steps[i].e = "verifyPresentationChallenge"
            => i = 2 /\ lastCall.steps[1] = Phase("validatePresentation", TRUE)
     /\ lastCall.result.isValid
          => /\ FirstPhasePasses /\ ~ChallengeCheck.threw
             /\ lastCall.steps = <<Phase("validatePresentation", TRUE),
                                   Phase("verifyPresentationChallenge", TRUE)>>
     /\ (FirstPhasePasses /\ ChallengeCheck.threw)
          => /\ ~lastCall.result.threw
             /\ ~lastCall.result.isValid
             /\ lastCall.result.suppliedPresentation = lastArgs.vp
             /\ lastCall.result.errors = <<ChallengeCheck.error>>
             /\ lastCall.result.did = "none"
             /\ lastCall.result.challenge = NoToken

C17_Witness ==
  /\ Done("verifyPresentation")
  /\ lastArgs.vp = built.presentation
  /\ lastCall.steps = <<Phase("validatePresentation", TRUE),
                        Phase("verifyPresentationChallenge", FALSE)>>
  /\ lastCall.result.errors = <<"challenge expired">>
  /\ lastCall.result.suppliedPresentation = built.presentation

\* the verifier verified the presentation the holder built from the
\* challenge the verifier generated, the challenge not being expired
RoundTrip ==
  /\ Done("verifyPresentation")
  /\ built.challenge # NoToken /\ built.challenge.expiresAt # "past"
  /\ built.presentation # NoPresentation
  /\ built.presentation.challenge = built.challenge
  /\ lastArgs.vp = built.presentation

RequestedPlaces ==
  { i \in DOMAIN lastArgs.vcs :
      \E j \in DOMAIN lastArgs.challenge.requirements :
        lastArgs.vcs[i].type[2] = lastArgs.challenge.requirements[j].type[2] }

\* C19: the presentation built by createPresentationFromChallenge contains
\* exactly the input credentials whose second type tag is among the types
\* the challenge requests, in input order; the others are dropped without an
\* error, also when none matches; the proof is bound to the original
\* challenge token and the given domain
C19_PresentationFiltersByType ==
  (Done("createPresentationFromChallenge") /\ IsJwt(lastArgs.challenge))
  => LET vp == lastCall.result.presentation
     IN /\ ~lastCall.result.threw
        /\ built.presentation = vp
        /\ Len(vp.verifiableCredential) = Cardinality(RequestedPlaces)
        /\ \A i \in RequestedPlaces :
             vp.verifiableCredential[Cardinality({k \in RequestedPlaces : k <= i})]
               = lastArgs.vcs[i]
        /\ vp.challenge = lastArgs.challenge
        /\ vp.domain = lastArgs.domain
        /\ vp.holder = DidOf(HolderKey)

C19_Witness ==
  /\ Done("createPresentationFromChallenge")
  /\ IsJwt(lastArgs.challenge)
  /\ Len(lastArgs.vcs) = 2
  /\ RequestedPlaces = {2}
  /\ lastCall.result.presentation.verifiableCredential = <<lastArgs.vcs[2]>>
  /\ lastArgs.domain = "other.example"

\* a verify operation was given a well-formed token or presentation, and a
\* usable request if any, and a signature or claim check of it fails
CheckFails ==
  \/ /\ Done("verifyCredentialShareResponseToken")
     /\ IsJwt(lastCall.token)
     /\ IF lastArgs.isFunction THEN IsJwt(lastArgs.answer)
        ELSE lastArgs.request # MalformedToken
     /\ \/ ~SignatureVerifies(lastCall.token)
        \/ RequestUsed # NoToken /\ RequestUsed.jti # lastCall.token.jti
        \/ /\ lastArgs.shouldOwn # "false"
           /\ \E i \in DOMAIN lastCall.token.suppliedCredentials :
                lastCall.token.suppliedCredentials[i].holder # DidOf(lastCall.token.iss)
  \/ /\ Done("verifyCredentialOfferResponseToken")
     /\ IsJwt(lastCall.token)
     /\ \/ ~SignatureVerifies(lastCall.token)
        \/ lastArgs.request # NoToken /\ lastArgs.request.jti # lastCall.token.jti
  \/ /\ Done("verifyPresentation")
     /\ lastArgs.vp # NoPresentation
     /\ ~FirstPhasePasses \/ ChallengeCheck.threw

\* C16: for every well-formed response token or presentation whose signature
\* or claim check fails, verifyCredentialShareResponseToken,
\* verifyCredentialOfferResponseToken and verifyPresentation return a result
\* with isValid=false and errors, and raise no exception
C16_FailedChecksAreReturned ==
  CheckFails
  => /\ ~lastCall.result.threw
     /\ ~lastCall.result.isValid
     /\ lastCall.result.errors # <<>>

C16_Witness ==
  /\ Done("verifyPresentation")
  /\ FirstPhasePasses /\ ChallengeCheck.threw
  /\ ~lastCall.result.threw
  /\ lastCall.result.errors = <<"challenge not issued by the verifier">>

(***************************************************************************)
(* DID-auth and the share flow.                                            *)
(***************************************************************************)
\* C20: generateDidAuthRequest(options) builds what
\* generateCredentialShareRequestToken builds for no requirements, no issuer
\* constraint and the same options; createDidAuthResponse(t) builds what
\* createCredentialShareResponseToken(t, []) builds; verifyDidAuthResponse(r, q)
\* returns what verifyCredentialShareResponseToken(r, q) returns with shouldOwn
\* at its default, true
C20_DidAuthIsShareWithoutCredentials ==
  /\ Done("generateDidAuthRequest")
       => lastCall.result = ShareRequestOutcome(<<>>, "undefined", lastArgs.options, lastArgs.fresh)
  /\ Done("createDidAuthResponse")
       => lastCall.result = ShareResponseOutcome(lastArgs.request, <<>>)
  /\ Done("verifyDidAuthResponse")
       => lastCall.result =
            VerifyShareOutcome(lastArgs.token, lastArgs.request, FALSE, NoToken, TRUE).result

C20_Witness ==
  /\ Done("verifyDidAuthResponse")
  /\ lastArgs.request # NoToken
  /\ lastCall.token.suppliedCredentials # <<>>
  /\ lastCall.result.errors = <<"owner">>

(***************************************************************************)
(* Properties of an exchange.                                              *)
(***************************************************************************)
\* the verifier verified the response that createDidAuthResponse built for the
\* request that generateDidAuthRequest built
DidAuthRoundTrip ==
  /\ Done("verifyDidAuthResponse")
  /\ IsJwt(built.request) /\ built.request.requirements = <<>>
  /\ built.response = DidAuthResponseOutcome(built.request).token
  /\ lastArgs.token = built.response
  /\ lastArgs.request \in {built.request, NoToken}

\* C21: for a share request built with no requirements, the response that
\* createDidAuthResponse builds for it verifies with isValid=true, did the
\* responder's DID and nonce the request's nonce; the response supplies no
\* credentials and the verification reports no error, so no credential type
\* is matched against the request
C21_DidAuthRoundTrip ==
  DidAuthRoundTrip
  => /\ ~lastCall.result.threw
     /\ lastCall.result.isValid
     /\ lastCall.result.did = DidOf(HolderKey)
     /\ lastCall.result.nonce = built.request.jti
     /\ lastCall.result.credentials = <<>>
     /\ lastCall.result.errors = <<>>

C21_Witness ==
  /\ DidAuthRoundTrip
  /\ lastArgs.request = built.request
  /\ built.request.jti = "nonce:3"
  /\ lastCall.result.isValid

\* C22: for the same arguments generatePresentationChallenge fails exactly
\* when generateCredentialShareRequestToken fails, and otherwise returns the
\* payload the Verifier builder returns for the same requirements, issuerDid,
\* audienceDid, expiresAt, nonce and callbackUrl, signed by the same key; the
\* two tokens differ only in the key id, which the challenge lacks
C22_ChallengeIsShareRequestWithoutKeyId ==
  Done("generatePresentationChallenge")
  => LET share == ShareRequestOutcome(lastArgs.credentialRequirements, lastArgs.issuerDid,
                                      lastArgs.options, lastArgs.fresh)
     IN /\ lastCall.result.threw = share.threw
        /\ lastCall.result.code = share.code
        /\ ~share.threw
             => /\ lastCall.result.token = [share.token EXCEPT !.kid = "none"]
                /\ share.token.kid # "none"

C22_Witness ==
  /\ Done("generatePresentationChallenge")
  /\ ~lastCall.result.threw
  /\ lastArgs.options.callbackUrl # "none" /\ lastArgs.options.expiresAt # "none"
  /\ lastArgs.issuerDid = "did:elem:issuer"
  /\ lastArgs.credentialRequirements # <<>>
  /\ lastCall.result.token.kid = "none"
  /\ lastCall.result.token.callbackUrl = lastArgs.options.callbackUrl

\* the types named by a list of offered or selected credentials
TypesOf(credentials) == {credentials[i].type : i \in DOMAIN credentials}

\* the issuer verified, against its offer, the response that
\* createCredentialOfferResponseToken built for the offer that
\* generateCredentialOfferRequestToken built
OfferRoundTrip ==
  /\ Done("verifyCredentialOfferResponseToken")
  /\ built.request.typ = "credentialOfferRequest"
  /\ built.response = OfferResponseOutcome(built.request).token
  /\ lastArgs.token = built.response
  /\ lastArgs.request = built.request

\* C24: the response createCredentialOfferResponseToken builds for an offer
\* built by generateCredentialOfferRequestToken selects exactly the offered
\* credential types, all of them, and verifyCredentialOfferResponseToken of
\* that response against that offer returns isValid=true with
\* selectedCredentials of exactly those types
C24_OfferRoundTrip ==
  OfferRoundTrip
  => /\ built.response.selectedCredentials = built.request.offeredCredentials
     /\ ~lastCall.result.threw
     /\ lastCall.result.isValid
     /\ lastCall.result.errors = <<>>
     /\ Len(lastCall.result.credentials) = Len(built.request.offeredCredentials)
     /\ TypesOf(lastCall.result.credentials) = TypesOf(built.request.offeredCredentials)
     /\ lastCall.result.nonce = built.request.jti

C24_Witness ==
  /\ OfferRoundTrip
  /\ built.request.offeredCredentials = <<OfferedPhone, OfferedEmail>>
  /\ TypesOf(lastCall.result.credentials) = {PhoneType, EmailType}
  /\ lastCall.result.isValid

(***************************************************************************)
(* Properties of the build operations.                                     *)
(***************************************************************************)
\* the step of a call's log with the name e, if the call took it
Took(e) == \E i \in DOMAIN lastCall.steps : lastCall.steps[i].e = e

BuildOps ==
  { "generateCredentialOfferRequestToken", "generateCredentialShareRequestToken",
    "createCredentialOfferResponseToken", "createCredentialShareResponseToken" }

BuilderOf(op) ==
  CASE op = "generateCredentialOfferRequestToken" -> "BuildCredentialOffer"
    [] op = "generateCredentialShareRequestToken" -> "BuildCredentialRequest"
    [] op = "createCredentialOfferResponseToken" -> "buildCredentialOfferResponse"
    [] op = "createCredentialShareResponseToken" -> "buildCredentialResponse"

CallerKeyOf(op) ==
  IF op \in {"generateCredentialOfferRequestToken", "generateCredentialShareRequestToken"}
  THEN VerifierKey ELSE HolderKey

\* the names of the steps a call took, in order
StepNames == [i \in DOMAIN lastCall.steps |-> lastCall.steps[i].e]

\* every step of the call but the last passed
OnlyLastMayFail ==
  \A i \in DOMAIN lastCall.steps : i < Len(lastCall.steps) => lastCall.steps[i].ok

\* C25: a build operation that has returned or thrown took its steps in the
\* order validation, builder, signing, encoding, stopping at the first that
\* failed; it returned a token exactly when all four passed, and the token is
\* then signed with the caller's key; when the validation or the builder
\* failed, nothing was signed or encoded and no token was returned
C25_ValidateBuildSignEncode ==
  \A op \in BuildOps :
    Done(op)
    => LET order == <<"validate", BuilderOf(op), "signJWT", "encodeObjectToJWT">>
           n == Len(lastCall.steps)
       IN /\ n \in 1..4 /\ StepNames = SubSeq(order, 1, n)
          /\ OnlyLastMayFail
          /\ lastCall.result.threw <=> ~lastCall.steps[n].ok
          /\ ~lastCall.result.threw
               => /\ n = 4
                  /\ lastCall.result.token.signedBy = CallerKeyOf(op)
                  /\ lastCall.result.token.kid = CallerKeyOf(op)
          /\ lastCall.result.threw
               => /\ n < 3 /\ ~Took("signJWT") /\ ~Took("encodeObjectToJWT")
                  /\ lastCall.result.token = NoToken
                  /\ built = NothingBuilt

C25_Witness ==
  /\ Done("createCredentialShareResponseToken")
  /\ StepNames = <<"validate", "buildCredentialResponse">>
  /\ lastCall.result.code = "NoMatchingCredentialsError"
  /\ lastArgs.suppliedCredentials # <<>>

(***************************************************************************)
(* Properties of the operations that send requests to services.            *)
(***************************************************************************)
\* the requests a revocation-list call sent, each with what came of it
RevocationRequests ==
  [ build |-> {"build", "buildFailed"}, revoke |-> {"flip", "revokeRejected", "revokeFailed"},
    publish |-> {"publish", "publishFailed"} ]

\* how many times call k sent the request r
Sent(k, r) ==
  Cardinality({i \in DOMAIN calls[k].log : calls[k].log[i] \in RevocationRequests[r]})

\* the requests of the exchange operations to the Issuer and Verifier APIs
ApiRequests == {"BuildCredentialOffer", "BuildCredentialRequest", "VerifyCredentialOfferResponse"}

\* the places in the last call's steps where it sent the request r
ApiSent(r) == {i \in DOMAIN lastCall.steps : lastCall.steps[i].e = r}

StoreRequests == Len(storeCall.attempts)

\* C27: one storeEncryptedSeed call sends the store request at most four
\* times, the first attempt and Retries retries, whatever the storage
\* answers; once it has sent the fourth, or has been answered with success or
\* with a known error code, it has ended with success or with an error
C27_AtMostFourStoreRequests ==
  /\ StoreRequests <= Retries + 1
  /\ StoreRequests = Retries + 1
       => storeCall.pc = "done" /\ storeCall.outcome \in {"ok", "error"}
  /\ storeCall.pc = "done" <=> storeCall.outcome \in {"ok", "error"}

\* the call has sent a fourth request, after three failures that are not known
C27_Witness ==
  /\ StoreRequests = 4
  /\ \A i \in 1..3 : storeCall.attempts[i] \notin ErrorCodes \cup {"ok"}
  /\ storeCall.pc = "done"

\* C27 as stated: at most three store requests in one call
C27_AtMostThreeStoreRequests == StoreRequests <= 3

\* the answer to the store request sent last
LastReply == storeCall.attempts[StoreRequests]

\* C28: a store request answered with COR-1 or WAL-2 is the call's last and
\* the call fails with that same error, not wrapped; a request answered with
\* any other error is followed by another attempt unless it was the last one
\* allowed, and then the call fails with COR-18 carrying that error; a request
\* answered with success is the call's last and the call succeeds; and only
\* the answer to the last request can be success or a known error
C28_BailRetryWrap ==
  /\ \A i \in 1..(StoreRequests - 1) : storeCall.attempts[i] \notin ErrorCodes \cup {"ok"}
  /\ StoreRequests > 0
       => /\ LastReply \in ErrorCodes
               => /\ storeCall.pc = "done" /\ storeCall.outcome = "error"
                  /\ storeCall.error = LastReply /\ storeCall.cause = "none"
          /\ LastReply = "ok"
               => storeCall.pc = "done" /\ storeCall.outcome = "ok"
          /\ LastReply \notin ErrorCodes \cup {"ok"}
               => IF StoreRequests <= Retries
                  THEN storeCall.pc = "retry" /\ storeCall.outcome = "pending"
                  ELSE /\ storeCall.pc = "done" /\ storeCall.outcome = "error"
                       /\ storeCall.error = "COR-18" /\ storeCall.cause = LastReply

\* a known error on the second attempt, after a retried one
C28_Witness ==
  /\ storeCall.attempts = <<"ECONNRESET", "WAL-2">>
  /\ storeCall.outcome = "error" /\ storeCall.error = "WAL-2"

(***************************************************************************)
(* Properties of signIn and confirmSignIn.                                 *)
(***************************************************************************)
\* the signIn call has started a passwordless login
LoginStarted ==
  \/ signInCall.pc = "passwordlessLogin"
  \/ \E i \in DOMAIN signInCall.log :
       signInCall.log[i] \in {"passwordlessLogin", "passwordlessLoginFailed"}

\* the signIn call has got the answer to its sign-up
SignUpAnswered ==
  signInCall.round > 0 /\ signInCall.pc # "signUp" /\ signInCall.log[1] # "validateFailed"

\* C29: a signIn call whose arguments are valid attempts the sign-up before
\* anything else; it starts a passwordless login exactly when the sign-up
\* failed with COR-7; a sign-up that failed with another code ends the call
\* with that error and no login; a sign-up that succeeded makes the call return
\* the sign-up token with no login
C29_SignUpFirstLoginOnCor7 ==
  /\ SignUpAnswered => signInCall.log[1] \in {"signUp", "signUpFailed"}
  /\ LoginStarted <=> signInCall.caught = "COR-7"
  /\ LoginStarted => signInCall.log[1] = "signUpFailed"
  /\ signInCall.caught \notin {"none", "COR-7"}
       => /\ signInCall.pc = "thrown" /\ signInCall.error = signInCall.caught
          /\ signInCall.log = <<"signUpFailed">>
  /\ (signInCall.round > 0 /\ signInCall.log # <<>> /\ signInCall.log[1] = "signUp")
       => /\ signInCall.token = SignUpToken(signInCall.username)
          /\ signInCall.caught = "none" /\ ~LoginStarted

C29_Witness ==
  /\ signInCall.log = <<"signUpFailed", "passwordlessLogin">>
  /\ signInCall.caught = "COR-7"
  /\ signInCall.pc = "signedIn"
  /\ signInCall.token = LoginToken(signInCall.username)

\* C30: a confirmSignIn call that returns gives isNew=true exactly when the
\* user did not exist or was unconfirmed when the signIn call before it was
\* made, the account being confirmed by this call, and isNew=false exactly
\* when the user was confirmed already and the token is that of the
\* passwordless login
C30_IsNewTellsCreation ==
  signInCall.pc = "done"
  => /\ signInCall.isNew \in {"true", "false"}
     /\ signInCall.isNew = "true"
          <=> signInCall.userAtSignIn \in {"absent", "unconfirmed"}
     /\ signInCall.isNew = "true"
          => /\ signInCall.token = SignUpToken(signInCall.username)
             /\ userStatus[signInCall.username] = "confirmed"
     /\ signInCall.isNew = "false"
          <=> /\ signInCall.userAtSignIn = "confirmed"
              /\ signInCall.token = LoginToken(signInCall.username)

C30_Witness ==
  /\ signInCall.pc = "done"
  /\ signInCall.isNew = "true"
  /\ signInCall.userAtSignIn = "unconfirmed"

\* the wrong confirmation codes the log of the signIn call shows
WrongOtpsLogged ==
  Cardinality({i \in DOMAIN signInCall.log : signInCall.log[i] = "wrongOtp"})

\* the last step of the signIn call was a wrong confirmation code
WrongOtpLast ==
  signInCall.log # <<>> /\ signInCall.log[Len(signInCall.log)] = "wrongOtp"

C31_WitnessUsable ==
  /\ signInCall.log = <<"signUpFailed", "passwordlessLogin", "wrongOtp", "completeLoginChallenge">>
  /\ signInCall.pc = "done"

(***************************************************************************)
(* Properties of signUp and confirmSignUp.                                 *)
(***************************************************************************)
\* the place of the step in the log of the call, 0 if it was not taken
RegStepAt(step) ==
  IF \E i \in DOMAIN regCall.log : regCall.log[i] = step
  THEN CHOOSE i \in DOMAIN regCall.log : regCall.log[i] = step
  ELSE 0

\* how often the step was taken
RegStepCount(step) == Cardinality({i \in DOMAIN regCall.log : regCall.log[i] = step})

\* the call went through confirmSignUp
ThroughConfirmSignUp == regCall.via \in {"signUp", "direct", "confirmSignIn"}

\* C32: a call of confirmSignUp, by the caller, by signUp for an arbitrary
\* username or by confirmSignIn for a sign-up token, that returns an instance
\* has invoked afterConfirmSignUp exactly once, after the instance was made and
\* as the last step before the return
C32_AfterConfirmSignUpOnce ==
  /\ regCall.hooks = RegStepCount("afterConfirmSignUp")
  /\ regCall.hooks <= 1
  /\ (regCall.pc = "returned" /\ ThroughConfirmSignUp)
       => /\ regCall.hooks = 1
          /\ regCall.log[Len(regCall.log)] = "afterConfirmSignUp"
  /\ regCall.hooks = 1
       => /\ ThroughConfirmSignUp
          /\ RegStepAt("pullEncryptionKey") > 0
          /\ RegStepAt("pullEncryptionKey") < RegStepAt("afterConfirmSignUp")

C32_Witness ==
  /\ regCall.pc = "returned"
  /\ regCall.via = "confirmSignIn"
  /\ regCall.hooks = 1
  /\ regCall.stored = 1

\* signUp has returned: the token, or the instance made by its own
\* confirmSignUp
SignUpReturned ==
  \/ regCall.pc = "tokenReturned"
  \/ regCall.pc = "returned" /\ regCall.via = "signUp"

\* C33: signUp returns the initialized instance, the user confirmed with no
\* confirmation code, exactly when the username is an arbitrary one, and it
\* refuses an arbitrary username without a password; for an email or a phone
\* number it returns the token with the user unconfirmed, and that user is
\* confirmed only by a later call with the confirmation code that was sent
C33_SignUpCompletesForArbitraryUsername ==
  LET isUsername == ValidateUsername(regCall.username).isUsername
  IN /\ SignUpReturned
          => /\ regCall.outcome = "instance" <=> isUsername
             /\ regCall.outcome = "token" <=> ~isUsername
     /\ (SignUpReturned /\ isUsername)
          => /\ regCall.user.status = "confirmed"
             /\ regCall.code = "none"
             /\ regCall.password # NoPassword
     /\ (regCall.pc # "idle" /\ isUsername /\ regCall.password = NoPassword)
          => /\ regCall.pc = "thrown" /\ regCall.error = "COR-1"
             /\ regCall.user = NoUser
     /\ (regCall.pc = "tokenReturned") => regCall.user.status = "unconfirmed"
     /\ (~isUsername /\ regCall.user.status = "confirmed")
          => /\ regCall.via \in {"direct", "confirmSignIn", "withExistsEntity"}
             /\ regCall.code = "right"
             /\ RegStepAt("signUp") > 0
             /\ RegStepAt("signUp") < RegStepAt("confirmUser")

C33_Witness ==
  /\ regCall.pc = "returned"
  /\ regCall.via = "signUp"
  /\ regCall.outcome = "instance"
  /\ regCall.user.status = "confirmed"
  /\ regCall.username = <<"b", "o", "b">>

\* C34: confirmSignUp calls storeEncryptedSeed at most once, and only after
\* the DID was registered, the user was confirmed and the sign-in succeeded,
\* in this order; with skipBackupEncryptedSeed set it never calls it; an
\* instance returned without that option has had its seed stored; a call whose
\* confirmation or sign-in failed has stored nothing and returns no instance
C34_SeedStoredOnceAfterSignIn ==
  /\ regCall.stored <= 1
  /\ regCall.skipBackupEncryptedSeed => regCall.stored = 0
  /\ regCall.stored = 1
       => /\ RegStepAt("confirmUser") > 0
          /\ RegStepAt("confirmUser") < RegStepAt("signIn")
          /\ RegStepAt("signIn") < RegStepAt("pullEncryptionKey")
          /\ ThroughConfirmSignUp
               => /\ RegStepAt("register") > 0
                  /\ RegStepAt("register") < RegStepAt("confirmUser")
          /\ regCall.user.status = "confirmed"
  /\ RegStepAt("storeEncryptedSeed") > 0
       => /\ RegStepCount("storeEncryptedSeed") = 1
          /\ RegStepAt("pullEncryptionKey") < RegStepAt("storeEncryptedSeed")
  /\ (regCall.pc = "returned" /\ ~regCall.skipBackupEncryptedSeed)
       => RegStepAt("storeEncryptedSeed") > 0
  /\ (RegStepAt("confirmUserFailed") > 0 \/ RegStepAt("signInFailed") > 0)
       => /\ regCall.stored = 0
          /\ regCall.pc = "thrown" /\ regCall.outcome = "error"

C34_Witness ==
  /\ regCall.pc = "returned"
  /\ regCall.via = "direct"
  /\ regCall.log = <<"signUp", "register", "confirmUser", "signIn", "pullEncryptionKey",
                     "storeEncryptedSeed", "afterConfirmSignUp">>

\* with the option set, the instance is returned and nothing was stored
C34_WitnessSkipped ==
  /\ regCall.pc = "returned"
  /\ regCall.skipBackupEncryptedSeed
  /\ regCall.stored = 0

\* C35: the username and the password that confirmSignUp takes from the
\* sign-up token are the ones signUp joined into it, whatever characters they
\* hold, and confirmSignIn takes that token for a sign-up token
C35_TokenRoundTrip ==
  regCall.recovered # NoRecovered
  => /\ regCall.recovered.username = regCall.username
     /\ regCall.recovered.password = regCall.user.password
     /\ IsSignUpTokenText(regCall.token)

(***************************************************************************)
(* Properties of the logins.                                               *)
(***************************************************************************)
\* C36: an instance returned by a login carries the Cognito tokens that this
\* login obtained, also when another login for another user runs at the same
\* time with the same options object
C36_InstanceCarriesOwnTokens ==
  \A k \in LoginCalls :
    logins.calls[k].pc = "returned"
    => logins.calls[k].cognitoUserTokens = CognitoUserTokens(LoginUserOf(k))

(***************************************************************************)
(* Properties of AffinityWallet.deleteCredential.                          *)
(***************************************************************************)
\* what the call has removed from the vault
Removed == {i \in VaultIndexes : wallet.vault[i] # wallet.call.before[i]}

\* C39: deleteCredential with an id and a credentialIndex fails with COR-1,
\* looks nothing up and deletes nothing; with a credentialIndex only it looks
\* nothing up and deletes that index and no other; with an id only it looks the
\* id up once and deletes the index where that id was kept and no other
C39_DeleteByIdOrIndex ==
  LET call == wallet.call
      hasId == call.id \notin {NoCredentialId, EmptyId}
      hasIndex == call.credentialIndex # NoIndex
  IN /\ Removed = call.deleted
     /\ (call.pc # "idle" /\ hasId /\ hasIndex)
          => /\ call.pc = "thrown" /\ call.error = "COR-1"
             /\ call.lookups = 0 /\ Removed = {}
     /\ (hasIndex /\ ~hasId)
          => /\ call.lookups = 0
             /\ Removed \subseteq {call.credentialIndex}
             /\ call.pc = "returned" => Removed = {call.credentialIndex}
     /\ (call.pc # "idle" /\ ~hasIndex)
          => /\ call.lookups <= 1
             /\ Removed \subseteq {i \in VaultIndexes : call.before[i] = call.id}
             /\ call.pc = "returned"
                  => /\ call.lookups = 1
                     /\ Removed = {i \in VaultIndexes : call.before[i] = call.id}
                     /\ Removed # {}

C39_Witness ==
  /\ wallet.call.pc = "thrown"
  /\ wallet.call.error = "COR-1"
  /\ wallet.call.id = "claimId:b"
  /\ wallet.call.credentialIndex = "0"
  /\ wallet.vault # FullVault

\* a deletion by id alone, after an earlier deletion
C39_WitnessById ==
  /\ wallet.call.pc = "returned"
  /\ wallet.call.id = "claimId:b"
  /\ wallet.call.before # FullVault
  /\ wallet.vault["1"] = NoCredentialId

(***************************************************************************)
(* Properties of concurrent revocations.                                   *)
(***************************************************************************)
\* C37: when revokeCredential calls for credentials of the same revocation
\* list have all returned successfully, however they interleaved, the list
\* credential published last for that list marks each of those credentials
\* as revoked
C37_PublishedListHoldsEveryRevocation ==
  (\A k \in Calls : calls[k].op = "revoke" /\ calls[k].outcome = "ok")
  => \A k \in Calls :
       \A e \in EntriesOf(calls[k].credentialId) :
         e.index \in published[e.list].revoked

\* C40: buildRevocationListStatus leaves the object it is given as it was,
\* its @context included: the credentialStatus and the revocation context are
\* in the returned copy only, and a second call with the same object starts
\* from the contexts the first one started from
C40_InputObjectUnchanged ==
  /\ \A k \in BuildCalls :
       /\ objs[calls[k].obj].context = calls[k].inContext
       /\ objs[calls[k].obj].credentialStatus = NoStatus
  /\ \A k1, k2 \in BuildCalls :
       calls[k1].obj = calls[k2].obj => calls[k1].inContext = calls[k2].inContext

\* the unsigned credentials of the call that carry a selected type, in input order
SelectedParams(t, params) ==
  SelectSeq(params, LAMBDA u : IsCredentialOffered(u, CredentialTypesThatCanBeSigned(t)))

\* signCredentials was given a decodable token and no selected credential
\* that has already expired
SignCredentialsRan ==
  /\ Done("signCredentials")
  /\ IsJwt(lastCall.token)
  /\ \A i \in DOMAIN lastArgs.credentialParams :
       IsCredentialOffered(lastArgs.credentialParams[i],
                           CredentialTypesThatCanBeSigned(lastCall.token))
         => ~ExpiryRejected(lastArgs.credentialParams[i].expirationDate)

\* the call answered with one credential, in input order, per selected
\* unsigned credential, each held by holderDid, or with COR-22 for none
SignedForSelected(holderDid) ==
  LET selected == SelectedParams(lastCall.token, lastArgs.credentialParams)
      result == lastCall.result
  IN IF Len(selected) = 0
     THEN result.threw /\ result.error = "COR-22"
     ELSE /\ ~result.threw
          /\ Len(result.credentials) = Len(selected)
          /\ \A i \in DOMAIN selected :
               /\ result.credentials[i].type = selected[i].type
               /\ result.credentials[i].expirationDate = selected[i].expirationDate
               /\ result.credentials[i].holder = holderDid

\* C38: signCredentials returns, in input order, one signed credential for
\* exactly the unsigned credentials with a type among the selected types of
\* the offer response token, each issued to the DID that signed that token,
\* and fails with COR-22 when no unsigned credential matches
C38_SignsSelectedForTokenSigner ==
  SignCredentialsRan => SignedForSelected(DidOf(lastCall.token.signedBy))

\* the same answer, with the credentials issued to the DID the token names
\* as its iss, whoever signed the token
SignsSelectedForTokenIss ==
  SignCredentialsRan => SignedForSelected(DidOf(lastCall.token.iss))

\* a forged offer response was answered with signed credentials
SignedForForgedToken ==
  /\ SignCredentialsRan
  /\ lastCall.token.signedBy # lastCall.token.iss
  /\ ~lastCall.result.threw

\* a call that signed two credentials of different types
SignedTwoOfTwo ==
  /\ SignCredentialsRan
  /\ Len(lastArgs.credentialParams) = 2
  /\ Len(lastCall.result.credentials) = 2
  /\ lastCall.result.credentials[1].type # lastCall.result.credentials[2].type

\* a call in which no unsigned credential carried a selected type
SignedNoneSelected ==
  /\ SignCredentialsRan
  /\ lastCall.result.threw
  /\ lastCall.result.error = "COR-22"

=============================================================================
